---- MODULE Spec2Model ----
(***************************************************************************)
(* Model of the statistics engine of fantasy-league-history:               *)
(* StatsEngine (display names, season normalisation, career aggregation,   *)
(* leaderboards, record book, head-to-head records, streaks) and           *)
(* AdvancedAnalytics (data intake, luck, consistency, close games,         *)
(* strength of schedule, highest single game, full report), the cache of    *)
(* the engine in localStorage, the start-up of the application             *)
(* (FantasyApp.autoLoadData, FantasyApp.loadLeagueData) and the loop of the *)
(* pre-builder (prebuild.js).                                               *)
(*                                                                         *)
(* Conventions: a JavaScript value that is undefined/null/absent is the    *)
(* falsy value of its type here (0 for a number, "" for a string), which   *)
(* is how the code tests it (`!champion`, `a.playoffSeed && ...`).         *)
(* Scores and points are integers; a Map is a sequence of entries in       *)
(* insertion order or a function over its keys.                            *)
(***************************************************************************)
EXTENDS Integers, Sequences, FiniteSets, TLC

VARIABLES
    rawData,          \* the year -> payload mapping handed to the engine
    allSeasonData,    \* StatsEngine.allSeasonData
    aggregatedStats,  \* StatsEngine.aggregatedStats (NullStats before a load)
    teamNameMap,      \* StatsEngine.teamNameMap: teamId -> [name, ownerId]
    ownerNameMap,     \* StatsEngine.ownerNameMap: ownerId -> name
    ownerHistory,     \* StatsEngine.ownerHistory: ownerId -> the teams of the owner
    analytics,        \* the AdvancedAnalytics instance (NullAnalytics before construction)
    report,           \* the analytics results computed last (NoReport before)
    teamNameMapByString,  \* the entries of StatsEngine.teamNameMap whose key is a
                          \* string: the entry of key "7" is kept under 7
    localStorage,     \* the browser's localStorage: key -> value
    result,           \* what saveToStorage or loadFromStorage returned last:
                      \* "true", "false", "none" before the first call
    staticFile,       \* what /data/league-data.json serves to the application
    now,              \* Date.now(), in days
    app,              \* the FantasyApp instance and the position of its start-up
    build             \* the locals of prebuild.js build() and its position

\* the variables of the cache of the engine
storageVars == <<teamNameMapByString, localStorage, result>>

\* the variables of the application
appVars == <<staticFile, now, app>>

vars == <<rawData, allSeasonData, aggregatedStats, teamNameMap, ownerNameMap,
          ownerHistory, analytics, report, storageVars, appVars, build>>

-----------------------------------------------------------------------------
(* Bounds of the model *)

MaxMatchups == 2      \* games of the two seasons of a head-to-head input, in all
MaxTeams == 2         \* teams of a season in the career inputs
MaxPlayoffGames == 2  \* playoff games of the season in the bracket inputs
MaxSeed == 3          \* playoff seeds in the fallback inputs
MaxHistory == 4       \* entries of an owner in ownerHistory before the last load
MaxLeague == 13       \* teams of the season in the leaderboard inputs
MaxReloads == 1       \* loads of an engine on top of an earlier load, with the cache
MaxBuildYears == 4    \* years that the pre-builder fetches
MaxFetches == 1       \* calls of loadLeagueData from the settings form at a time
MaxDays == 8          \* the last day of the clock

-----------------------------------------------------------------------------
(* Generic helpers *)

Max(a, b) == IF a > b THEN a ELSE b
Min(a, b) == IF a < b THEN a ELSE b

RECURSIVE SetToSeq(_)
\* the elements of a finite set of integers in ascending order
SetToSeq(S) ==
    IF S = {} THEN <<>>
    ELSE LET m == CHOOSE x \in S : \A y \in S : x <= y
         IN <<m>> \o SetToSeq(S \ {m})

Range(s) == {s[i] : i \in DOMAIN s}

\* m[k] = v on a Map modelled as a function
Put(m, k, v) == [x \in (DOMAIN m) \cup {k} |-> IF x = k THEN v ELSE m[x]]

Get(m, k, default) == IF k \in DOMAIN m THEN m[k] ELSE default

RECURSIVE SumSeq(_)
\* reduce((a, b) => a + b, 0)
SumSeq(s) == IF s = <<>> THEN 0 ELSE Head(s) + SumSeq(Tail(s))

RECURSIVE GCD(_, _)
GCD(a, b) == IF b = 0 THEN a ELSE GCD(b, a % b)

Abs(a) == IF a < 0 THEN 0 - a ELSE a

\* a JavaScript number that is not an integer: the exact quotient num / den in
\* lowest terms, den > 0 (the rounding error of the floating-point division
\* is not modelled)
Frac(num, den) ==
    LET g == GCD(Abs(num), den)
    IN [num |-> num \div g, den |-> den \div g]

FracAdd(a, b) == Frac(a.num * b.den + b.num * a.den, a.den * b.den)

FracSub(a, b) == Frac(a.num * b.den - b.num * a.den, a.den * b.den)

FracLess(a, b) == a.num * b.den < b.num * a.den

\* parseFloat(x.toFixed(digits)) in units of 10^-digits: the nearest multiple
\* of the magnitude, the larger one when two are equally near, with the sign
ToFixed(x, digits) ==
    LET unit == IF digits = 1 THEN 10 ELSE 100
        magnitude == (2 * Abs(x.num) * unit + x.den) \div (2 * x.den)
    IN IF x.num < 0 THEN 0 - magnitude ELSE magnitude

\* NaN, the result of 0 / 0, and a number that is not NaN
NaN == [nan |-> TRUE]

Num(v) == [nan |-> FALSE, v |-> v]

SelectIdx(s, Test(_)) == {i \in DOMAIN s : Test(s[i])}

\* Array.prototype.find: the first element that passes, or none
FirstIdx(s, Test(_)) ==
    LET I == SelectIdx(s, Test)
    IN IF I = {} THEN 0 ELSE CHOOSE i \in I : \A j \in I : i <= j

\* Array.prototype.sort(comparefn) is stable: element i goes behind every
\* element that compares before it and every earlier element that compares equal.
StableSort(s, Before(_, _)) ==
    LET n == Len(s)
        pos(i) == 1 + Cardinality({j \in 1..n : j # i /\
                        (Before(s[j], s[i]) \/ (~Before(s[i], s[j]) /\ j < i))})
    IN [k \in 1..n |-> s[CHOOSE i \in 1..n : pos(i) = k]]

\* a comparefn is consistent on s when "before" is a strict weak order
ConsistentOn(s, Before(_, _)) ==
    LET n == Len(s)
        Eq(i, j) == ~Before(s[i], s[j]) /\ ~Before(s[j], s[i])
    IN \A i, j, k \in 1..n :
          /\ (Before(s[i], s[j]) /\ Before(s[j], s[k])) => Before(s[i], s[k])
          /\ (Eq(i, j) /\ Eq(j, k)) => Eq(i, k)

-----------------------------------------------------------------------------
(* String(n) (NumToString) and the default sort of Array.prototype.sort() *)

DigitChar == <<"0", "1", "2", "3", "4", "5", "6", "7", "8", "9">>

CharCode(c) == CHOOSE d \in 0..9 : DigitChar[d + 1] = c

RECURSIVE NumToString(_)
\* the decimal string of a non-negative integer, as a sequence of characters
NumToString(n) ==
    IF n < 10 THEN <<DigitChar[n + 1]>>
    ELSE NumToString(n \div 10) \o <<DigitChar[(n % 10) + 1]>>

RECURSIVE parseInt(_)
\* parseInt of a string of decimal digits
parseInt(str) ==
    IF Len(str) = 1 THEN CharCode(str[1])
    ELSE parseInt(SubSeq(str, 1, Len(str) - 1)) * 10 + CharCode(str[Len(str)])

RECURSIVE StringLess(_, _)
\* s < t in the code-unit order of JavaScript strings (digit strings only)
StringLess(s, t) ==
    IF t = <<>> THEN FALSE
    ELSE IF s = <<>> THEN TRUE
    ELSE IF Head(s) # Head(t) THEN CharCode(Head(s)) < CharCode(Head(t))
    ELSE StringLess(Tail(s), Tail(t))

\* [a, b].sort(): without a comparefn the elements are ordered by their strings
SortPair(a, b) ==
    IF StringLess(NumToString(b), NumToString(a)) THEN <<b, a>> ELSE <<a, b>>

h2hKeyUnsorted(a, b) == NumToString(a) \o <<"-">> \o NumToString(b)

\* [homeTeamId, awayTeamId].sort().join('-')
h2hKey(a, b) ==
    LET p == SortPair(a, b)
    IN NumToString(p[1]) \o <<"-">> \o NumToString(p[2])

-----------------------------------------------------------------------------
(* The provider payload of one year and its normalisation (espn-api.js)     *)
(*                                                                          *)
(* payload == [error, hasTeams, teams, schedule, settings]                  *)
(*   error    : TRUE for { error: message }                                 *)
(*   hasTeams : FALSE when the payload has no `teams` property              *)
(*   teams    : <<[id, record |-> [overall |-> [wins, losses, ties,         *)
(*               pointsFor, pointsAgainst]], rankCalculatedFinal,           *)
(*               playoffSeed, owners]>>                                     *)
(*   schedule : <<[matchupPeriodId, home |-> [teamId, totalPoints],         *)
(*               away |-> [teamId, totalPoints], playoffTierType]>>         *)
(*   settings : [regularSeasonMatchupPeriods, playoffTeamCount]             *)

\* espnAPI.parseTeams: the canonical Team records of a payload
parseTeams(data) ==
    [i \in DOMAIN data.teams |->
        [id |-> data.teams[i].id,
         record |-> data.teams[i].record.overall,
         rankCalculatedFinal |-> data.teams[i].rankCalculatedFinal,
         playoffSeed |-> data.teams[i].playoffSeed]]

\* espnAPI.parseMatchups: the canonical Matchup records of a payload
parseMatchups(data) ==
    [i \in DOMAIN data.schedule |->
        [matchupPeriodId |-> data.schedule[i].matchupPeriodId,
         homeTeamId |-> data.schedule[i].home.teamId,
         awayTeamId |-> data.schedule[i].away.teamId,
         homeScore |-> data.schedule[i].home.totalPoints,
         awayScore |-> data.schedule[i].away.totalPoints,
         playoffTierType |-> data.schedule[i].playoffTierType]]

\* espnAPI.parseSettings
parseSettings(data) == data.settings

-----------------------------------------------------------------------------
(* StatsEngine.buildTeamNameMap and StatsEngine.getTeamName                 *)
(*                                                                          *)
(* names == [teamNameMap, ownerNameMap, ownerHistory], the three maps of    *)
(* the engine.  A raw team carries `name` and `primaryOwner` ("" when       *)
(* absent); the payloads of the model have no `members` list and their      *)
(* `owners` are id strings, so the owner name falls through to the team     *)
(* name.                                                                    *)

\* `team.primaryOwner || team.owners?.[0]?.id`: an id string has no `.id`
ownerIdOf(team) == team.primaryOwner

\* `team.name || \`Team ${teamId}\``, the last fallback of ownerName
ownerNameOf(team) ==
    IF team.name # "" THEN team.name ELSE "Team " \o ToString(team.id)

\* the body of `for (const team of data.teams)`
nameTeam(names, year, team) ==
    LET teamId == team.id
        ownerId == ownerIdOf(team)
        ownerName == ownerNameOf(team)
    IN [teamNameMap |->
            IF teamId \in DOMAIN names.teamNameMap THEN names.teamNameMap
            ELSE Put(names.teamNameMap, teamId,
                     [name |-> ownerName, ownerId |-> ownerId]),
        ownerNameMap |->
            IF ownerId # "" /\ ownerId \notin DOMAIN names.ownerNameMap
            THEN Put(names.ownerNameMap, ownerId, ownerName)
            ELSE names.ownerNameMap,
        ownerHistory |->
            IF ownerId # ""
            THEN Put(names.ownerHistory, ownerId,
                     Append(Get(names.ownerHistory, ownerId, <<>>),
                            [year |-> year, teamId |-> teamId,
                             teamName |-> team.name, ownerName |-> ownerName]))
            ELSE names.ownerHistory]

RECURSIVE nameTeams(_, _, _, _)
nameTeams(names, year, teams, i) ==
    IF i > Len(teams) THEN names
    ELSE nameTeams(nameTeam(names, year, teams[i]), year, teams, i + 1)

RECURSIVE nameYears(_, _, _, _)
\* for (const year of years), latest year first, from the i-th latest on
nameYears(names, data, years, i) ==
    IF i < 1 THEN names
    ELSE LET year == years[i]
         IN nameYears(
               IF data[year].error \/ ~data[year].hasTeams THEN names
               ELSE nameTeams(names, year, data[year].teams, 1),
               data, years, i - 1)

\* the maps are those of the engine: what an earlier load stored stays
buildTeamNameMap(names, data) ==
    LET years == SetToSeq(DOMAIN data)
    IN nameYears(names, data, years, Len(years))

getTeamName(names, teamId) ==
    IF teamId \notin DOMAIN names.teamNameMap THEN "Team " \o ToString(teamId)
    ELSE LET info == names.teamNameMap[teamId]
         IN IF info.ownerId # "" /\ info.ownerId \in DOMAIN names.ownerNameMap
               /\ names.ownerNameMap[info.ownerId] # ""
            THEN names.ownerNameMap[info.ownerId]
            ELSE info.name

-----------------------------------------------------------------------------
(* StatsEngine.processSeasonData *)

\* the regular-season cutoff: the settings' count, else the default of the era
regularSeasonWeeksOf(year, settings) ==
    IF settings.regularSeasonMatchupPeriods # 0
    THEN settings.regularSeasonMatchupPeriods
    ELSE IF year <= 2020 THEN 13 ELSE 14

isPlayoffMatchup(m, regularSeasonWeeks) ==
    IF m.playoffTierType # "" THEN TRUE
    ELSE m.matchupPeriodId > regularSeasonWeeks

\* matchups.filter(...).map(m => ({ ...m, isPlayoffGame: false }))
regularMatchupsOf(matchups, regularSeasonWeeks) ==
    LET keep(m) == IF m.playoffTierType # "" THEN FALSE
                   ELSE m.matchupPeriodId <= regularSeasonWeeks
        kept == SelectSeq(matchups, keep)
    IN [i \in DOMAIN kept |->
          [matchupPeriodId |-> kept[i].matchupPeriodId,
           homeTeamId |-> kept[i].homeTeamId, awayTeamId |-> kept[i].awayTeamId,
           homeScore |-> kept[i].homeScore, awayScore |-> kept[i].awayScore,
           playoffTierType |-> kept[i].playoffTierType,
           isPlayoffGame |-> FALSE]]

\* matchups.filter(...).map(m => ({ ...m, isPlayoffGame: true }))
playoffMatchupsOf(matchups, regularSeasonWeeks) ==
    LET keep(m) == isPlayoffMatchup(m, regularSeasonWeeks)
        kept == SelectSeq(matchups, keep)
    IN [i \in DOMAIN kept |->
          [matchupPeriodId |-> kept[i].matchupPeriodId,
           homeTeamId |-> kept[i].homeTeamId, awayTeamId |-> kept[i].awayTeamId,
           homeScore |-> kept[i].homeScore, awayScore |-> kept[i].awayScore,
           playoffTierType |-> kept[i].playoffTierType,
           isPlayoffGame |-> TRUE]]

\* Method 1: the first team with rankCalculatedFinal === 1, 0 when there is none
championByRank(teams) ==
    LET isFirst(t) == t.rankCalculatedFinal = 1
        i == FirstIdx(teams, isFirst)
    IN IF i = 0 THEN 0 ELSE teams[i].id

\* the WINNERS_BRACKET games among the playoff matchups
championshipGamesOf(playoffMatchups) ==
    LET inBracket(m) == m.playoffTierType = "WINNERS_BRACKET"
    IN SelectSeq(playoffMatchups, inBracket)

\* the first championship-bracket game of the last bracket week (needs a non-empty list)
championshipOf(championshipGames) ==
    LET lastWeek == CHOOSE w \in {championshipGames[i].matchupPeriodId :
                                    i \in DOMAIN championshipGames} :
                        \A j \in DOMAIN championshipGames :
                            championshipGames[j].matchupPeriodId <= w
        isLast(m) == m.matchupPeriodId = lastWeek
    IN championshipGames[FirstIdx(championshipGames, isLast)]

championByGameAlways(champion, championship) ==
    IF championship.homeScore # championship.awayScore
    THEN IF championship.homeScore > championship.awayScore
         THEN championship.homeTeamId ELSE championship.awayTeamId
    ELSE champion

\* Method 2: the winner of the final, unless a champion is known or the final is tied
championByGame(champion, championship) ==
    IF champion = 0 /\ championship.homeScore # championship.awayScore
    THEN IF championship.homeScore > championship.awayScore
         THEN championship.homeTeamId ELSE championship.awayTeamId
    ELSE champion

\* champion and runner-up by rank, when a champion is known and no final was found
participantsByRank(champion, championshipParticipants, teams) ==
    IF champion # 0 /\ Len(championshipParticipants) = 0
    THEN LET isSecond(t) == t.rankCalculatedFinal = 2
             i == FirstIdx(teams, isSecond)
         IN IF i # 0 THEN <<champion, teams[i].id>> ELSE <<champion>>
    ELSE championshipParticipants

fallbackBeforeByRecord(a, b) ==
    (b.record.wins - b.record.losses) - (a.record.wins - a.record.losses) < 0

\* the comparefn of Method 3 returns a negative number for (a, b)
fallbackBefore(a, b) ==
    IF a.playoffSeed # 0 /\ b.playoffSeed # 0
    THEN a.playoffSeed - b.playoffSeed < 0
    ELSE (b.record.wins - b.record.losses) - (a.record.wins - a.record.losses) < 0

\* Method 3: sortedTeams[0]?.id.  When the comparefn is not consistent on the
\* teams the order of the sorted array is implementation-defined, and `pick`
\* is the index of the team the engine's sort puts first.
championFallback(teams, pick) ==
    IF Len(teams) = 0 THEN 0
    ELSE IF ConsistentOn(teams, fallbackBefore)
         THEN StableSort(teams, fallbackBefore)[1].id
         ELSE teams[pick].id

\* a.wins / (a.wins + a.losses) || 0, as the fraction <<numerator, denominator>>
winPctOf(t) ==
    IF t.record.wins + t.record.losses = 0 \/ t.record.wins = 0
    THEN <<0, 1>>
    ELSE <<t.record.wins, t.record.wins + t.record.losses>>

\* the comparefn of the standings returns a negative number for (a, b)
standingsBefore(a, b) ==
    LET pa == winPctOf(a)
        pb == winPctOf(b)
    IN IF pb[1] * pa[2] # pa[1] * pb[2]
       THEN pb[1] * pa[2] < pa[1] * pb[2]
       ELSE b.record.pointsFor - a.record.pointsFor < 0

processSeasonData(year, data, pick) ==
    LET teams == parseTeams(data)
        matchups == parseMatchups(data)
        settings == parseSettings(data)
        regularSeasonWeeks == regularSeasonWeeksOf(year, settings)
        regularMatchups == regularMatchupsOf(matchups, regularSeasonWeeks)
        playoffMatchups == playoffMatchupsOf(matchups, regularSeasonWeeks)
        champion1 == championByRank(teams)
        championshipGames == championshipGamesOf(playoffMatchups)
        hasFinal == Len(playoffMatchups) > 0 /\ Len(championshipGames) > 0
        championship == championshipOf(championshipGames)
        participants2 == IF hasFinal
                         THEN <<championship.homeTeamId, championship.awayTeamId>>
                         ELSE <<>>
        champion2 == IF hasFinal THEN championByGame(champion1, championship)
                     ELSE champion1
        participants == participantsByRank(champion2, participants2, teams)
        champion == IF champion2 = 0 THEN championFallback(teams, pick)
                    ELSE champion2
        standings == StableSort(teams, standingsBefore)
    IN [year |-> year,
        teams |-> standings,      \* teams.sort() sorts the team array in place
        matchups |-> regularMatchups,
        playoffMatchups |-> playoffMatchups,
        settings |-> settings,
        champion |-> champion,
        championshipParticipants |-> participants,
        standings |-> standings]

-----------------------------------------------------------------------------
(* StatsEngine.mergeSeasonStats *)

NullStats == [null |-> TRUE]

IsNull(v) == "null" \in DOMAIN v

KeptStats ==
    IF IsNull(aggregatedStats)
    THEN [careerRecords |-> <<>>, allMatchups |-> <<>>, seasonSummaries |-> <<>>,
          champions |-> <<>>, highScores |-> <<>>, h2hRecords |-> <<>>]
    ELSE [careerRecords |-> aggregatedStats.careerRecords,
          allMatchups |-> aggregatedStats.allMatchups,
          seasonSummaries |-> aggregatedStats.seasonSummaries,
          champions |-> aggregatedStats.champions,
          highScores |-> aggregatedStats.highScores,
          h2hRecords |-> aggregatedStats.h2hRecords]

\* the aggregate that aggregateAllStats starts from
EmptyStats ==
    [careerRecords |-> <<>>,      \* Map teamId -> career record, in insertion order
     allMatchups |-> <<>>,
     seasonSummaries |-> <<>>,
     champions |-> <<>>,
     highScores |-> <<>>,
     h2hRecords |-> <<>>]         \* Map h2hKey -> record, a function over its keys

NewCareer(teamId, names) ==
    [teamId |-> teamId, teamName |-> getTeamName(names, teamId), wins |-> 0, losses |-> 0, ties |-> 0,
     pointsFor |-> 0, pointsAgainst |-> 0, championships |-> 0,
     championshipAppearances |-> 0, playoffAppearances |-> 0, seasonsPlayed |-> 0]

careerIndex(careerRecords, teamId) ==
    LET isTeam(r) == r.teamId = teamId
    IN FirstIdx(careerRecords, isTeam)

updateCareerDroppingLosses(career, team, seasonStats) ==
    [career EXCEPT
        !.wins = @ + team.record.wins,
        !.ties = @ + team.record.ties,
        !.pointsFor = @ + team.record.pointsFor,
        !.pointsAgainst = @ + team.record.pointsAgainst,
        !.seasonsPlayed = @ + 1]

\* one team of one season added to its career record
updateCareer(career, team, seasonStats) ==
    [career EXCEPT
        !.wins = @ + team.record.wins,
        !.losses = @ + team.record.losses,
        !.ties = @ + team.record.ties,
        !.pointsFor = @ + team.record.pointsFor,
        !.pointsAgainst = @ + team.record.pointsAgainst,
        !.seasonsPlayed = @ + 1,
        !.championships =
            IF seasonStats.champion = team.id THEN @ + 1 ELSE @,
        !.championshipAppearances =
            IF team.id \in Range(seasonStats.championshipParticipants)
            THEN @ + 1 ELSE @,
        !.playoffAppearances =
            IF team.playoffSeed # 0 /\ team.playoffSeed <=
                 (IF seasonStats.settings.playoffTeamCount # 0
                  THEN seasonStats.settings.playoffTeamCount ELSE 6)
            THEN @ + 1 ELSE @]

RECURSIVE mergeTeams(_, _, _, _)
\* for (const team of seasonStats.teams), from team i on
mergeTeams(careerRecords, seasonStats, names, i) ==
    IF i > Len(seasonStats.teams) THEN careerRecords
    ELSE LET team == seasonStats.teams[i]
             withTeam == IF careerIndex(careerRecords, team.id) = 0
                         THEN Append(careerRecords, NewCareer(team.id, names))
                         ELSE careerRecords
             k == careerIndex(withTeam, team.id)
         IN mergeTeams([withTeam EXCEPT ![k] = updateCareer(@, team, seasonStats)],
                       seasonStats, names, i + 1)

NewH2H(matchup) ==
    [team1 |-> Min(matchup.homeTeamId, matchup.awayTeamId),
     team2 |-> Max(matchup.homeTeamId, matchup.awayTeamId),
     team1Wins |-> 0, team2Wins |-> 0, ties |-> 0, matchups |-> <<>>]

h2hEntry(h2h, matchup, year) ==
    [year |-> year,
     week |-> matchup.matchupPeriodId,
     team1Score |-> IF matchup.homeTeamId = h2h.team1
                    THEN matchup.homeScore ELSE matchup.awayScore,
     team2Score |-> IF matchup.homeTeamId = h2h.team2
                    THEN matchup.homeScore ELSE matchup.awayScore,
     isPlayoff |-> matchup.isPlayoffGame]

updateH2HHomeIsTeam1(h2h, matchup, year) ==
    LET winner == IF matchup.homeScore > matchup.awayScore
                  THEN h2h.team1 ELSE h2h.team2
    IN [h2h EXCEPT
          !.ties = IF matchup.homeScore = matchup.awayScore THEN @ + 1 ELSE @,
          !.team1Wins = IF matchup.homeScore # matchup.awayScore /\ winner = h2h.team1
                        THEN @ + 1 ELSE @,
          !.team2Wins = IF matchup.homeScore # matchup.awayScore /\ winner # h2h.team1
                        THEN @ + 1 ELSE @,
          !.matchups = Append(@,
              [year |-> year, week |-> matchup.matchupPeriodId,
               team1Score |-> matchup.homeScore, team2Score |-> matchup.awayScore,
               isPlayoff |-> matchup.isPlayoffGame])]

updateH2HTieToTeam2(h2h, matchup, year) ==
    LET winner == IF matchup.homeScore > matchup.awayScore
                  THEN matchup.homeTeamId ELSE matchup.awayTeamId
    IN [h2h EXCEPT
          !.team1Wins = IF winner = h2h.team1 /\ matchup.homeScore # matchup.awayScore
                        THEN @ + 1 ELSE @,
          !.team2Wins = IF winner # h2h.team1 THEN @ + 1 ELSE @,
          !.matchups = Append(@, h2hEntry(h2h, matchup, year))]

\* one matchup added to the head-to-head record of its pair
updateH2H(h2h, matchup, year) ==
    LET winner == IF matchup.homeScore > matchup.awayScore
                  THEN matchup.homeTeamId ELSE matchup.awayTeamId
    IN [h2h EXCEPT
          !.ties = IF matchup.homeScore = matchup.awayScore THEN @ + 1 ELSE @,
          !.team1Wins = IF matchup.homeScore # matchup.awayScore /\ winner = h2h.team1
                        THEN @ + 1 ELSE @,
          !.team2Wins = IF matchup.homeScore # matchup.awayScore /\ winner # h2h.team1
                        THEN @ + 1 ELSE @,
          !.matchups = Append(@, h2hEntry(h2h, matchup, year))]

\* the body of `for (const matchup of [...matchups, ...playoffMatchups])`
mergeMatchup(aggregate, matchup, year, names) ==
    LET isPlayoff == matchup.isPlayoffGame
        key == h2hKey(matchup.homeTeamId, matchup.awayTeamId)
        records == IF key \in DOMAIN aggregate.h2hRecords
                   THEN aggregate.h2hRecords
                   ELSE aggregate.h2hRecords @@ (key :> NewH2H(matchup))
    IN [aggregate EXCEPT
          !.allMatchups = Append(@,
              [matchupPeriodId |-> matchup.matchupPeriodId,
               homeTeamId |-> matchup.homeTeamId, awayTeamId |-> matchup.awayTeamId,
               homeScore |-> matchup.homeScore, awayScore |-> matchup.awayScore,
               playoffTierType |-> matchup.playoffTierType,
               isPlayoffGame |-> matchup.isPlayoffGame,
               year |-> year]),
          !.highScores = @ \o
              <<[teamId |-> matchup.homeTeamId,
                 teamName |-> getTeamName(names, matchup.homeTeamId),
                 score |-> matchup.homeScore,
                 opponentScore |-> matchup.awayScore, year |-> year,
                 week |-> matchup.matchupPeriodId, isPlayoff |-> isPlayoff],
                [teamId |-> matchup.awayTeamId,
                 teamName |-> getTeamName(names, matchup.awayTeamId),
                 score |-> matchup.awayScore,
                 opponentScore |-> matchup.homeScore, year |-> year,
                 week |-> matchup.matchupPeriodId, isPlayoff |-> isPlayoff]>>,
          !.h2hRecords = [records EXCEPT ![key] = updateH2H(@, matchup, year)]]

RECURSIVE mergeMatchups(_, _, _, _, _)
mergeMatchups(aggregate, matchups, year, names, i) ==
    IF i > Len(matchups) THEN aggregate
    ELSE mergeMatchups(mergeMatchup(aggregate, matchups[i], year, names),
                       matchups, year, names, i + 1)

mergeSeasonStats(aggregate, seasonStats, year, names) ==
    LET withSeason ==
            [aggregate EXCEPT
               !.seasonSummaries = Append(@,
                   [year |-> year, champion |-> seasonStats.champion,
                    standings |-> seasonStats.standings,
                    settings |-> seasonStats.settings]),
               !.champions = IF seasonStats.champion # 0
                             THEN Append(@,
                                [year |-> year,
                                 teamId |-> seasonStats.champion,
                                 teamName |-> getTeamName(names, seasonStats.champion)])
                             ELSE @,
               !.careerRecords = mergeTeams(@, seasonStats, names, 1)]
    IN mergeMatchups(withSeason, seasonStats.matchups \o seasonStats.playoffMatchups,
                     year, names, 1)

-----------------------------------------------------------------------------
(* StatsEngine.calculateStreaks *)

NoGame == [year |-> 0, week |-> 0]

\* the entries pushed to teamMatchups, in push order: home then away of each matchup
streakEntries(allMatchups) ==
    [k \in 1..(2 * Len(allMatchups)) |->
        LET m == allMatchups[(k + 1) \div 2]
            isHome == k % 2 = 1
            myScore == IF isHome THEN m.homeScore ELSE m.awayScore
            theirScore == IF isHome THEN m.awayScore ELSE m.homeScore
        IN [teamId |-> IF isHome THEN m.homeTeamId ELSE m.awayTeamId,
            year |-> m.year,
            week |-> m.matchupPeriodId,
            won |-> myScore > theirScore,
            score |-> myScore,
            opponentScore |-> theirScore]]

RECURSIVE firstSeenOrder(_, _, _)
\* the keys of teamMatchups in insertion order
firstSeenOrder(entries, i, seen) ==
    IF i > Len(entries) THEN seen
    ELSE firstSeenOrder(entries, i + 1,
            IF entries[i].teamId \in Range(seen) THEN seen
            ELSE Append(seen, entries[i].teamId))

chronologicalBefore(a, b) ==
    IF a.year - b.year # 0 THEN a.year - b.year < 0 ELSE a.week - b.week < 0

StreakStart ==
    [currentWinStreak |-> 0, currentLossStreak |-> 0,
     maxWinStreak |-> [length |-> 0, start |-> NoGame, end |-> NoGame],
     maxLossStreak |-> [length |-> 0, start |-> NoGame, end |-> NoGame],
     streakStart |-> NoGame]

\* one iteration of the scan over a team's matches
streakStep(st, match) ==
    LET here == [year |-> match.year, week |-> match.week]
    IN IF match.won
       THEN LET start == IF st.currentWinStreak = 0 THEN here ELSE st.streakStart
                cur == st.currentWinStreak + 1
            IN [st EXCEPT
                  !.streakStart = start,
                  !.currentWinStreak = cur,
                  !.currentLossStreak = 0,
                  !.maxWinStreak = IF cur > @.length
                                   THEN [length |-> cur, start |-> start, end |-> here]
                                   ELSE @]
       ELSE LET start == IF st.currentLossStreak = 0 THEN here ELSE st.streakStart
                cur == st.currentLossStreak + 1
            IN [st EXCEPT
                  !.streakStart = start,
                  !.currentLossStreak = cur,
                  !.currentWinStreak = 0,
                  !.maxLossStreak = IF cur > @.length
                                    THEN [length |-> cur, start |-> start, end |-> here]
                                    ELSE @]

RECURSIVE streakScan(_, _, _)
streakScan(st, matches, i) ==
    IF i > Len(matches) THEN st
    ELSE streakScan(streakStep(st, matches[i]), matches, i + 1)

\* the matches of a team, sorted by year then week
teamMatches(entries, teamId) ==
    LET ofTeam(e) == e.teamId = teamId
    IN StableSort(SelectSeq(entries, ofTeam), chronologicalBefore)

longerBefore(a, b) == b.length - a.length < 0

calculateStreaks(stats, names) ==
    LET entries == streakEntries(stats.allMatchups)
        teamOrder == firstSeenOrder(entries, 1, <<>>)
        scanned == [k \in DOMAIN teamOrder |->
                       streakScan(StreakStart, teamMatches(entries, teamOrder[k]), 1)]
        all(kind) == [k \in DOMAIN teamOrder |->
                        [teamId |-> teamOrder[k],
                         teamName |-> getTeamName(names, teamOrder[k]),
                         length |-> scanned[k][kind].length,
                         start |-> scanned[k][kind].start,
                         end |-> scanned[k][kind].end]]
        found(r) == r.length > 0
    IN [win |-> StableSort(SelectSeq(all("maxWinStreak"), found), longerBefore),
        loss |-> StableSort(SelectSeq(all("maxLossStreak"), found), longerBefore)]

\* Array.prototype.slice(0, n)
Slice(s, n) == SubSeq(s, 1, Min(n, Len(s)))

\* the filter of the high scores: 2015 and earlier count weeks 1-12 only
countsAsHighScore(s) == IF s.year <= 2015 THEN s.week <= 12 ELSE TRUE

higherScoreBefore(a, b) == b.score - a.score < 0

lowerScoreBefore(a, b) == a.score - b.score < 0

\* an entry of `margins`
withMargin(m) ==
    [matchupPeriodId |-> m.matchupPeriodId, year |-> m.year,
     homeTeamId |-> m.homeTeamId, awayTeamId |-> m.awayTeamId,
     homeScore |-> m.homeScore, awayScore |-> m.awayScore,
     isPlayoffGame |-> m.isPlayoffGame,
     margin |-> Abs(m.homeScore - m.awayScore),
     winner |-> IF m.homeScore > m.awayScore THEN m.homeTeamId ELSE m.awayTeamId,
     loser |-> IF m.homeScore > m.awayScore THEN m.awayTeamId ELSE m.homeTeamId,
     winnerScore |-> Max(m.homeScore, m.awayScore),
     loserScore |-> Min(m.homeScore, m.awayScore),
     totalPoints |-> m.homeScore + m.awayScore]

widerBefore(a, b) == b.margin - a.margin < 0

closerBefore(a, b) == a.margin - b.margin < 0

morePointsBefore(a, b) == b.totalPoints - a.totalPoints < 0

\* StatsEngine.calculateRecordBook
calculateRecordBook(stats, names) ==
    LET filteredHighScores == SelectSeq(stats.highScores, countsAsHighScore)
        margins == [i \in DOMAIN stats.allMatchups |-> withMargin(stats.allMatchups[i])]
        streaks == calculateStreaks(stats, names)
    IN [highestScore |-> Slice(StableSort(filteredHighScores, higherScoreBefore), 10),
        lowestScore |-> Slice(StableSort(filteredHighScores, lowerScoreBefore), 10),
        biggestBlowout |-> Slice(StableSort(margins, widerBefore), 10),
        closestGame |-> Slice(StableSort(margins, closerBefore), 10),
        longestWinStreak |-> Slice(streaks.win, 10),
        longestLosingStreak |-> Slice(streaks.loss, 10),
        highestScoringGame |-> Slice(StableSort(margins, morePointsBefore), 10)]

-----------------------------------------------------------------------------
(* StatsEngine.calculateCareerLeaders *)

\* `r.wins / (r.wins + r.losses + r.ties) || 0`
winPctOfCareer(r) ==
    IF r.wins + r.losses + r.ties = 0 THEN Frac(0, 1)
    ELSE Frac(r.wins, r.wins + r.losses + r.ties)

withWinPct(r) ==
    [teamId |-> r.teamId, teamName |-> r.teamName, wins |-> r.wins,
     losses |-> r.losses, ties |-> r.ties, pointsFor |-> r.pointsFor,
     pointsAgainst |-> r.pointsAgainst, championships |-> r.championships,
     championshipAppearances |-> r.championshipAppearances,
     playoffAppearances |-> r.playoffAppearances,
     seasonsPlayed |-> r.seasonsPlayed, winPct |-> winPctOfCareer(r)]

\* a record that passed `r.wins + r.losses >= 10` has a game
withAvgPPG(r) ==
    [teamId |-> r.teamId, teamName |-> r.teamName, wins |-> r.wins,
     losses |-> r.losses, ties |-> r.ties, pointsFor |-> r.pointsFor,
     pointsAgainst |-> r.pointsAgainst, championships |-> r.championships,
     championshipAppearances |-> r.championshipAppearances,
     playoffAppearances |-> r.playoffAppearances,
     seasonsPlayed |-> r.seasonsPlayed,
     avgPPG |-> Frac(r.pointsFor, r.wins + r.losses + r.ties)]

moreWinsBefore(a, b) == b.wins - a.wins < 0

moreChampionshipsBefore(a, b) == b.championships - a.championships < 0

moreAppearancesBefore(a, b) ==
    b.championshipAppearances - a.championshipAppearances < 0

morePlayoffsBefore(a, b) == b.playoffAppearances - a.playoffAppearances < 0

morePointsForBefore(a, b) == b.pointsFor - a.pointsFor < 0

higherAvgBefore(a, b) == FracLess(a.avgPPG, b.avgPPG)

calculateCareerLeaders(stats) ==
    LET records == stats.careerRecords
        played(r) == r.wins + r.losses >= 10
        regulars == SelectSeq(records, played)
    IN [mostWins |->
            Slice(StableSort([i \in DOMAIN records |-> withWinPct(records[i])],
                             moreWinsBefore), 12),
        mostChampionships |->
            Slice(StableSort(records, moreChampionshipsBefore), 12),
        mostChampionshipAppearances |->
            Slice(StableSort(records, moreAppearancesBefore), 12),
        mostPlayoffs |-> Slice(StableSort(records, morePlayoffsBefore), 12),
        mostPointsFor |-> Slice(StableSort(records, morePointsForBefore), 10),
        avgPointsPerGame |->
            Slice(StableSort([i \in DOMAIN regulars |-> withAvgPPG(regulars[i])],
                             higherAvgBefore), 10)]

-----------------------------------------------------------------------------
(* StatsEngine.calculateH2HMatrix and StatsEngine.getH2HDetails *)

matrixCellWinsOnly(h2hRecords, team1, team2) ==
    LET key == h2hKey(team1, team2)
    IN IF key \in DOMAIN h2hRecords
       THEN LET record == h2hRecords[key]
            IN [wins |-> IF team1 = record.team1 THEN record.team1Wins
                         ELSE record.team2Wins,
                losses |-> IF team1 = record.team1 THEN record.team1Wins
                           ELSE record.team2Wins,
                ties |-> record.ties,
                matchups |-> record.matchups]
       ELSE [wins |-> 0, losses |-> 0, ties |-> 0, matchups |-> <<>>]

\* matrix[team1][team2] for two different teams
matrixCell(h2hRecords, team1, team2) ==
    LET key == h2hKey(team1, team2)
    IN IF key \in DOMAIN h2hRecords
       THEN LET record == h2hRecords[key]
            IN [wins |-> IF team1 = record.team1 THEN record.team1Wins
                         ELSE record.team2Wins,
                losses |-> IF team1 = record.team1 THEN record.team2Wins
                           ELSE record.team1Wins,
                ties |-> record.ties,
                matchups |-> record.matchups]
       ELSE [wins |-> 0, losses |-> 0, ties |-> 0, matchups |-> <<>>]

calculateH2HMatrix(stats) ==
    LET teams == {stats.careerRecords[i].teamId : i \in DOMAIN stats.careerRecords}
    IN [team1 \in teams |->
          [team2 \in teams |->
              IF team1 = team2 THEN NullStats
              ELSE matrixCell(stats.h2hRecords, team1, team2)]]

getH2HDetails(stats, team1Id, team2Id) ==
    IF IsNull(stats) THEN NullStats
    ELSE LET key == h2hKey(team1Id, team2Id)
         IN IF key \notin DOMAIN stats.h2hRecords
            THEN [team1 |-> [id |-> team1Id, wins |-> 0],
                  team2 |-> [id |-> team2Id, wins |-> 0],
                  ties |-> 0, matchups |-> <<>>]
            ELSE LET record == stats.h2hRecords[key]
                     isTeam1First == team1Id = record.team1
                 IN [team1 |-> [id |-> team1Id,
                                wins |-> IF isTeam1First THEN record.team1Wins
                                         ELSE record.team2Wins],
                     team2 |-> [id |-> team2Id,
                                wins |-> IF isTeam1First THEN record.team2Wins
                                         ELSE record.team1Wins],
                     ties |-> record.ties,
                     matchups |-> [i \in DOMAIN record.matchups |->
                         [year |-> record.matchups[i].year,
                          week |-> record.matchups[i].week,
                          team1Score |-> IF isTeam1First
                                         THEN record.matchups[i].team1Score
                                         ELSE record.matchups[i].team2Score,
                          team2Score |-> IF isTeam1First
                                         THEN record.matchups[i].team2Score
                                         ELSE record.matchups[i].team1Score,
                          isPlayoff |-> record.matchups[i].isPlayoff]]]

-----------------------------------------------------------------------------
(* StatsEngine.aggregateAllStats *)

\* `if (data.error || !data.teams) continue`
skipsSeason(data) == data.error \/ ~data.hasTeams

RECURSIVE aggregateSeasons(_, _, _, _, _, _)
\* for (const year of years), from the i-th year on
aggregateSeasons(stats, data, pick, names, years, i) ==
    IF i > Len(years) THEN stats
    ELSE LET year == years[i]
         IN aggregateSeasons(
                IF skipsSeason(data[year]) THEN stats
                ELSE mergeSeasonStats(stats,
                        processSeasonData(year, data[year], pick[year]), year, names),
                data, pick, names, years, i + 1)

\* Object.keys(allSeasonData).sort(): four-digit years sort as numbers
aggregateAllStats(data, pick, names) ==
    LET years == SetToSeq(DOMAIN data)
        stats == aggregateSeasons(EmptyStats, data, pick, names, years, 1)
    IN [careerRecords |-> stats.careerRecords,
        allMatchups |-> stats.allMatchups,
        seasonSummaries |-> stats.seasonSummaries,
        champions |-> stats.champions,
        highScores |-> stats.highScores,
        h2hRecords |-> stats.h2hRecords,
        careerLeaders |-> calculateCareerLeaders(stats),
        recordBook |-> calculateRecordBook(stats, names),
        h2hMatrix |-> calculateH2HMatrix(stats)]

-----------------------------------------------------------------------------
(* StatsEngine.saveToStorage, loadFromStorage, clearStorage                 *)
(*                                                                          *)
(* The cache is one localStorage entry.  allSeasonData is JSON that the     *)
(* provider sent, so JSON.stringify and JSON.parse give it back as it was;  *)
(* teamNameMap is a Map keyed by the numbers team.id, it is stored as an    *)
(* object, whose property names are strings, and it comes back as a Map     *)
(* keyed by these strings.  Map.get(7) does not find the key "7".           *)

CACHE_VERSION == 3

\* no call of saveToStorage or loadFromStorage has returned yet
NoResult == "none"

storageKey == "fantasy_league_data"

lastFetchKey == "espn_last_fetch"

\* localStorage.removeItem(key)
removeItem(storage, key) == [k \in (DOMAIN storage) \ {key} |-> storage[k]]

\* Object.fromEntries(this.teamNameMap): one property per key, number or
\* string, the value of the later entry where both exist; the entries with a
\* string key are the earlier ones
fromEntries(byNumber, byString) ==
    [id \in (DOMAIN byNumber) \cup (DOMAIN byString) |->
        IF id \in DOMAIN byNumber THEN byNumber[id] ELSE byString[id]]

\* the object that saveToStorage serialises, without its timestamp
serializable(data, byNumber, byString) ==
    [allSeasonData |-> data,
     teamNameMap |-> fromEntries(byNumber, byString),
     cacheVersion |-> CACHE_VERSION]

\* `data.cacheVersion !== StatsEngine.CACHE_VERSION`
outdated(data) == data.cacheVersion # CACHE_VERSION

-----------------------------------------------------------------------------
(* FantasyApp.autoLoadData and FantasyApp.loadLeagueData                    *)
(*                                                                          *)
(* The clock counts days; the time of the last fetch is stored as the       *)
(* string of the day.                                                       *)

cacheDays == 7

\* /data/league-data.json cannot be fetched
NoFile == [null |-> TRUE]

\* new FantasyApp(): `this.isLoading = false; this.dataLoaded = false`, and
\* init() has called autoLoadData(), which awaits /data/league-data.json;
\* status is what updateDataStatus showed last, inFlight the calls of
\* loadLeagueData that await the provider
NewApp == [pc |-> "static", isLoading |-> FALSE, dataLoaded |-> FALSE, status |-> "",
           inFlight |-> 0]

\* `staticData.meta && staticData.meta.successCount > 0` of a response that
\* is ok; a file that cannot be fetched or parsed is NoFile
staticQualifies(file) == ~IsNull(file) /\ file.meta.successCount > 0

\* a fetch time of exactly cacheDays days ago counts as fresh
cacheValidInclusive(storage, today) ==
    /\ lastFetchKey \in DOMAIN storage
    /\ storage[lastFetchKey] # <<>>
    /\ parseInt(storage[lastFetchKey]) >= today - cacheDays

\* `lastFetch && parseInt(lastFetch) > sevenDaysAgo`
cacheValid(storage, today) ==
    /\ lastFetchKey \in DOMAIN storage
    /\ storage[lastFetchKey] # <<>>
    /\ parseInt(storage[lastFetchKey]) > today - cacheDays

\* loadLeagueData up to its await: `this.isLoading = true`
startLoading(a) == [a EXCEPT !.isLoading = TRUE, !.inFlight = @ + 1]

\* the `finally` of loadLeagueData
endLoading(a) == [a EXCEPT !.isLoading = FALSE, !.inFlight = @ - 1]

-----------------------------------------------------------------------------
(* prebuild.js: fetchWithCookies, fetchSeasonData, build                    *)
(*                                                                          *)
(* The answer of the provider to the request of a year is                   *)
(*   [status, body], body being what JSON.parse gives: "season" for the     *)
(*   object of a season, "[season]" for an array holding it, "[]" for an    *)
(*   empty array, "null" for null, "invalid" for a text that does not parse,*)
(* and status 0 with no body when the request fails.  The source builds    *)
(* the years 2011 to 2026; the model builds MaxBuildYears years, the first  *)
(* of them two years before LEGACY_CUTOFF_YEAR.                             *)

\* no file has been written
NoOutput == [null |-> TRUE]

\* build() before `const allData = {}`; `output` is data/league-data.json
NewBuild == [pc |-> "start", year |-> 0, allData |-> <<>>, successCount |-> 0,
             errorCount |-> 0, output |-> NoOutput]

LEGACY_CUTOFF_YEAR == 2018

startYear == LEGACY_CUTOFF_YEAR - 2

currentYear == startYear + MaxBuildYears - 1

Answers ==
    {[status |-> 0, body |-> ""], [status |-> 500, body |-> "season"]}
    \cup {[status |-> 200, body |-> b] :
             b \in {"season", "[season]", "[]", "null", "invalid"}}

\* fetchWithCookies: the parsed body, or the rejection
fetchWithCookies(answer) ==
    IF answer.status = 0
    THEN [rejected |-> TRUE, value |-> "request failed"]
    ELSE IF answer.status # 200
    THEN [rejected |-> TRUE, value |-> "HTTP " \o ToString(answer.status)]
    ELSE IF answer.body = "invalid"
    THEN [rejected |-> TRUE, value |-> "Failed to parse JSON"]
    ELSE [rejected |-> FALSE, value |-> answer.body]

\* fetchSeasonData: `if (isLegacy && Array.isArray(data)) data = data[0] || {}`
fetchSeasonData(year, answer) ==
    LET fetched == fetchWithCookies(answer)
        isLegacy == year < LEGACY_CUTOFF_YEAR
        isArray == fetched.value \in {"[season]", "[]"}
    IN IF fetched.rejected \/ ~isLegacy \/ ~isArray THEN fetched
       ELSE [rejected |-> FALSE,
             value |-> IF fetched.value = "[season]" THEN "season" ELSE "{}"]

\* `allData[year] = { error: error.message }`
errorEntry(message) == [error |-> message]

\* one pass of the loop of build() on the answer to the request of the year
buildYear(b, answer) ==
    LET fetched == fetchSeasonData(b.year, answer)
    IN IF fetched.rejected
       THEN [b EXCEPT !.allData = Put(@, b.year, errorEntry(fetched.value)),
                      !.errorCount = @ + 1,
                      !.year = @ + 1]
       ELSE IF fetched.value = "null"
       \* `allData[year].teams` throws after `successCount++`
       THEN [b EXCEPT !.allData = Put(@, b.year, errorEntry("Cannot read properties of null")),
                      !.successCount = @ + 1,
                      !.errorCount = @ + 1,
                      !.year = @ + 1]
       ELSE [b EXCEPT !.allData = Put(@, b.year, [value |-> fetched.value]),
                      !.successCount = @ + 1,
                      !.year = @ + 1]

\* outputData, without leagueId and generatedAt
outputData(b) ==
    [meta |-> [startYear |-> startYear, endYear |-> currentYear,
               successCount |-> b.successCount, errorCount |-> b.errorCount],
     seasons |-> b.allData]

-----------------------------------------------------------------------------
(* AdvancedAnalytics: constructor, parseData, identifyCurrentOwners *)

NullAnalytics == [null |-> TRUE]

minYear == 2011

SamId == "{961895BA-00CF-4DC9-8A38-61A2924B6643}"
TrevorId == "{CE0D2B52-E1CA-40D4-8D2B-52E1CAD0D43A}"

getCanonicalOwnerIdRaw(ownerId) == ownerId

\* coOwnerMappings[ownerId] || ownerId
getCanonicalOwnerId(ownerId) == IF ownerId = SamId THEN TrevorId ELSE ownerId

EmptyAnalytics ==
    [seasons |-> <<>>,             \* year -> [teams, matchups]
     allMatchups |-> <<>>,
     weeklyScores |-> <<>>,        \* year -> week -> teamId -> score
     regularSeasonWeeks |-> <<>>,  \* year -> set of weeks
     teamToOwner |-> <<>>,         \* <<year, teamId>> -> primary owner id
     currentOwnerIds |-> {}]

\* this.teamToOwner.set(teamKey, primaryOwnerId) for the teams that have an owner
registerTeams(teamToOwner, year, teams) ==
    LET owned == {i \in DOMAIN teams : Len(teams[i].owners) > 0}
        last(id) == CHOOSE i \in owned : teams[i].id = id /\
                        \A j \in owned : teams[j].id = id => j <= i
        keys == {<<year, teams[i].id>> : i \in owned}
    IN [k \in (DOMAIN teamToOwner) \cup keys |->
          IF k \in keys THEN teams[last(k[2])].owners[1] ELSE teamToOwner[k]]

\* `if (seasonData.error) continue; ... if (year < this.minYear) continue;`
analyticsSkipsSeason(year, seasonData) ==
    seasonData.error \/ year < minYear

\* the matchupData record that parseData builds from a schedule entry
matchupDataOf(year, matchup) ==
    [year |-> year,
     week |-> matchup.matchupPeriodId,
     isPlayoff |-> matchup.playoffTierType # "" /\ matchup.playoffTierType # "NONE",
     homeTeamId |-> matchup.home.teamId,
     awayTeamId |-> matchup.away.teamId,
     homeScore |-> matchup.home.totalPoints,
     awayScore |-> matchup.away.totalPoints,
     margin |-> IF matchup.home.totalPoints >= matchup.away.totalPoints
                THEN matchup.home.totalPoints - matchup.away.totalPoints
                ELSE matchup.away.totalPoints - matchup.home.totalPoints,
     winnerId |-> IF matchup.home.totalPoints > matchup.away.totalPoints
                  THEN matchup.home.teamId ELSE matchup.away.teamId,
     loserId |-> IF matchup.home.totalPoints > matchup.away.totalPoints
                 THEN matchup.away.teamId ELSE matchup.home.teamId]

RECURSIVE parseSchedule(_, _, _, _)
\* schedule.forEach(matchup => ...), from entry i on; every entry of the model's
\* schedules has both sides and both scores
parseSchedule(an, year, schedule, i) ==
    IF i > Len(schedule) THEN an
    ELSE LET m == matchupDataOf(year, schedule[i])
             weeks == an.weeklyScores[year]
             scores == Get(weeks, m.week, <<>>)
             scores2 == Put(Put(scores, m.homeTeamId, m.homeScore),
                            m.awayTeamId, m.awayScore)
         IN parseSchedule(
               [an EXCEPT
                  !.regularSeasonWeeks[year] = IF m.isPlayoff THEN @ ELSE @ \cup {m.week},
                  !.weeklyScores[year] = Put(weeks, m.week, scores2),
                  !.seasons[year].matchups = Append(@, m),
                  !.allMatchups = Append(@, m)],
               year, schedule, i + 1)

\* the body of the loop of parseData for one season that is not skipped
parseSeason(an, year, seasonData) ==
    LET teams == IF seasonData.hasTeams THEN seasonData.teams ELSE <<>>
        start == [an EXCEPT
                    !.teamToOwner = registerTeams(@, year, teams),
                    !.weeklyScores = Put(@, year, Get(@, year, <<>>)),
                    !.regularSeasonWeeks = Put(@, year, Get(@, year, {})),
                    !.seasons = Put(@, year, [teams |-> teams, matchups |-> <<>>])]
    IN parseSchedule(start, year, seasonData.schedule, 1)

RECURSIVE parseYears(_, _, _, _)
parseYears(an, seasons, years, i) ==
    IF i > Len(years) THEN an
    ELSE parseYears(
            IF analyticsSkipsSeason(years[i], seasons[years[i]]) THEN an
            ELSE parseSeason(an, years[i], seasons[years[i]]),
            seasons, years, i + 1)

\* Object.entries(rawData.seasons) enumerates integer keys in ascending order
parseData(seasons) == parseYears(EmptyAnalytics, seasons, SetToSeq(DOMAIN seasons), 1)

\* the canonical owner ids of the teams of the latest season, with or without
\* teams
identifyCurrentOwnersOfLatest(an) ==
    IF DOMAIN an.seasons = {} THEN {}
    ELSE LET year == CHOOSE y \in DOMAIN an.seasons : \A z \in DOMAIN an.seasons : z <= y
             teams == an.seasons[year].teams
         IN {getCanonicalOwnerId(id) :
                id \in UNION {Range(teams[i].owners) : i \in DOMAIN teams}}

\* the canonical owner ids of the teams of the latest season that has teams
identifyCurrentOwners(an) ==
    LET valid == {y \in DOMAIN an.seasons : Len(an.seasons[y].teams) > 0}
    IN IF valid = {} THEN {}
       ELSE LET year == CHOOSE y \in valid : \A z \in valid : z <= y
                teams == an.seasons[year].teams
            IN {getCanonicalOwnerId(id) :
                   id \in UNION {Range(teams[i].owners) : i \in DOMAIN teams}}

-----------------------------------------------------------------------------
(* AdvancedAnalytics: identities                                            *)
(*                                                                          *)
(* An analytic is computed for a view: a year (the `year` argument) or      *)
(* AllTime (no argument).  Its Map is a sequence of entries in insertion    *)
(* order, each with its key: a team id in a year view, an owner id or       *)
(* "team-<id>" in the all-time view.                                        *)

AllTime == 0

isCurrentOwner(an, ownerId) == getCanonicalOwnerId(ownerId) \in an.currentOwnerIds

\* the canonical owner of the team in the year, "" for null
getOwnerId(an, teamId, year) ==
    IF <<year, teamId>> \in DOMAIN an.teamToOwner
    THEN getCanonicalOwnerId(an.teamToOwner[<<year, teamId>>])
    ELSE ""

\* `year ? teamId : (this.getOwnerId(teamId, yr) || \`team-${teamId}\`)`
keyOf(an, view, teamId, yr) ==
    IF view # AllTime THEN teamId
    ELSE IF getOwnerId(an, teamId, yr) # "" THEN getOwnerId(an, teamId, yr)
         ELSE "team-" \o ToString(teamId)

hiddenFromNoView(an, view, key) == FALSE

\* `if (!year && !this.isCurrentOwner(key)) return`
hiddenFromView(an, view, key) == view = AllTime /\ ~isCurrentOwner(an, key)

\* the position of the entry of a key, 0 when the Map has none
keyIndex(entries, key) ==
    LET I == {i \in DOMAIN entries : entries[i].key = key}
    IN IF I = {} THEN 0 ELSE CHOOSE i \in I : TRUE

RECURSIVE Flatten(_)
Flatten(ss) == IF ss = <<>> THEN <<>> ELSE Head(ss) \o Flatten(Tail(ss))

\* `year ? [year] : Object.keys(this.weeklyScores).map(Number)`, without the
\* years that have no weekly scores (`if (!weeks) return`)
yearsToProcess(an, view) ==
    IF view # AllTime
    THEN IF view \in DOMAIN an.weeklyScores THEN <<view>> ELSE <<>>
    ELSE SetToSeq(DOMAIN an.weeklyScores)

\* `this.allMatchups.filter(m => m.year === year && !m.isPlayoff)` or, for
\* all time, `filter(m => !m.isPlayoff)`
matchupsToUse(an, view) ==
    LET used(m) == ~m.isPlayoff /\ (view = AllTime \/ m.year = view)
    IN SelectSeq(an.allMatchups, used)

-----------------------------------------------------------------------------
(* AdvancedAnalytics.calculateAllPlayRecord and calculateLuckScores *)

\* the teams of one week with their all-play wins, in the order of the keys
\* of `scores`; nothing for a playoff week or a week of fewer than two teams
allPlayWeek(an, yr, week) ==
    LET scores == an.weeklyScores[yr][week]
        teamIds == SetToSeq(DOMAIN scores)
        numTeams == Len(teamIds)
    IN IF week \notin an.regularSeasonWeeks[yr] \/ numTeams < 2 THEN <<>>
       ELSE [i \in DOMAIN teamIds |->
               [year |-> yr, teamId |-> teamIds[i], numTeams |-> numTeams,
                winsThisWeek |->
                    Cardinality({oppId \in DOMAIN scores :
                        oppId # teamIds[i] /\ scores[teamIds[i]] > scores[oppId]})]]

allPlayWeeks(an, view) ==
    LET years == yearsToProcess(an, view)
        ofYear(yr) ==
            LET weeks == SetToSeq(DOMAIN an.weeklyScores[yr])
            IN Flatten([j \in DOMAIN weeks |-> allPlayWeek(an, yr, weeks[j])])
    IN Flatten([i \in DOMAIN years |-> ofYear(years[i])])

NewAllPlay(key) ==
    [key |-> key, expectedWins |-> Frac(0, 1), actualWins |-> 0, totalWeeks |-> 0,
     allPlayWins |-> 0, allPlayLosses |-> 0, seasons |-> {}, teamIds |-> {}]

RECURSIVE addAllPlay(_, _, _, _, _)
\* the body of `teamIds.forEach(teamId => ...)` over the weeks, from entry i on
addAllPlay(results, an, view, weeks, i) ==
    IF i > Len(weeks) THEN results
    ELSE LET w == weeks[i]
             key == keyOf(an, view, w.teamId, w.year)
             withKey == IF keyIndex(results, key) = 0
                        THEN Append(results, NewAllPlay(key)) ELSE results
             k == keyIndex(withKey, key)
         IN addAllPlay(
               [withKey EXCEPT ![k] =
                  [@ EXCEPT
                     !.expectedWins = FracAdd(@, Frac(w.winsThisWeek, w.numTeams - 1)),
                     !.allPlayWins = @ + w.winsThisWeek,
                     !.allPlayLosses = @ + (w.numTeams - 1 - w.winsThisWeek),
                     !.totalWeeks = @ + 1,
                     !.seasons = @ \cup {w.year},
                     !.teamIds = @ \cup {w.teamId}]],
               an, view, weeks, i + 1)

RECURSIVE addActualWins(_, _, _, _, _)
\* `matchupsToUse.forEach(m => ...)`, from matchup i on
addActualWins(results, an, view, matchups, i) ==
    IF i > Len(matchups) THEN results
    ELSE LET m == matchups[i]
             k == keyIndex(results, keyOf(an, view, m.winnerId, m.year))
         IN addActualWins(
               IF k = 0 THEN results
               ELSE [results EXCEPT ![k].actualWins = @ + 1],
               an, view, matchups, i + 1)

calculateAllPlayRecord(an, view) ==
    addActualWins(addAllPlay(<<>>, an, view, allPlayWeeks(an, view), 1),
                  an, view, matchupsToUse(an, view), 1)

\* an entry of luckScores; the rounded columns are in hundredths, the
\* percentage in tenths
luckRow(record) ==
    LET luck == FracSub(Frac(record.actualWins, 1), record.expectedWins)
        luckPerSeason == Frac(luck.num, luck.den * Cardinality(record.seasons))
    IN [key |-> record.key,
        actualWins |-> record.actualWins,
        expectedWins |-> ToFixed(record.expectedWins, 2),
        luckScore |-> ToFixed(luck, 2),
        luckPerSeason |-> ToFixed(luckPerSeason, 2),
        allPlayRecord |-> ToString(record.allPlayWins) \o "-"
                            \o ToString(record.allPlayLosses),
        allPlayWinPct |-> ToFixed(Frac(record.allPlayWins * 100,
                                       record.allPlayWins + record.allPlayLosses), 1),
        seasonsPlayed |-> Cardinality(record.seasons)]

unluckierBefore(a, b) == a.luckScore - b.luckScore < 0

calculateLuckScores(an, view) ==
    LET allPlayRecords == calculateAllPlayRecord(an, view)
        shown(record) == ~hiddenFromView(an, view, record.key)
        kept == SelectSeq(allPlayRecords, shown)
    IN StableSort([i \in DOMAIN kept |-> luckRow(kept[i])], unluckierBefore)

NoRow == [null |-> TRUE]

\* getSeasonLuckBreakdown: `Object.keys(this.seasons).map(Number).sort()`,
\* four-digit years sort as numbers
getSeasonLuckBreakdown(an) ==
    LET years == SetToSeq(DOMAIN an.seasons)
    IN [i \in DOMAIN years |->
          LET yearLuck == calculateLuckScores(an, years[i])
          IN [year |-> years[i],
              luckiest |-> IF yearLuck = <<>> THEN NoRow ELSE yearLuck[Len(yearLuck)],
              unluckiest |-> IF yearLuck = <<>> THEN NoRow ELSE yearLuck[1],
              allTeams |-> yearLuck]]

-----------------------------------------------------------------------------
(* AdvancedAnalytics.calculateConsistencyMetrics                            *)
(*                                                                          *)
(* The standard deviation and the coefficient of variation need a square    *)
(* root and are left out, and with them the final sort by the coefficient:  *)
(* the result is the set of the rows.  Display names are left out of the    *)
(* rows of every analytic.                                                  *)

\* every score of the view, week after week, with its team and year
scoreEntries(an, view) ==
    LET years == yearsToProcess(an, view)
        ofWeek(yr, week) ==
            LET scores == an.weeklyScores[yr][week]
                teamIds == SetToSeq(DOMAIN scores)
            IN [i \in DOMAIN teamIds |->
                  [year |-> yr, week |-> week, teamId |-> teamIds[i],
                   score |-> scores[teamIds[i]]]]
        ofYear(yr) ==
            LET weeks == SetToSeq(DOMAIN an.weeklyScores[yr])
            IN Flatten([j \in DOMAIN weeks |-> ofWeek(yr, weeks[j])])
    IN Flatten([i \in DOMAIN years |-> ofYear(years[i])])

RECURSIVE addTeamScores(_, _, _, _, _)
\* teamScores: key -> {scores, years}, from score entry i on
addTeamScores(teamScores, an, view, entries, i) ==
    IF i > Len(entries) THEN teamScores
    ELSE LET e == entries[i]
             key == keyOf(an, view, e.teamId, e.year)
             withKey == IF keyIndex(teamScores, key) = 0
                        THEN Append(teamScores, [key |-> key, scores |-> <<>>, years |-> {}])
                        ELSE teamScores
             k == keyIndex(withKey, key)
         IN addTeamScores(
               [withKey EXCEPT ![k] = [@ EXCEPT !.scores = Append(@, e.score),
                                                !.years = @ \cup {e.year}]],
               an, view, entries, i + 1)

minScores == 3

\* `if (scores.length < 3) return`
enoughScoresAtLeastOne(scores) == Len(scores) >= 1

enoughScores(scores) == Len(scores) >= minScores

consistencyRow(data) ==
    LET scores == data.scores
        n == Len(scores)
        total == SumSeq(scores)
        sorted == StableSort(scores, LAMBDA a, b : a < b)
        floor == sorted[((n * 1) \div 10) + 1]
        ceiling == sorted[((n * 9) \div 10) + 1]
        \* s >= avg * 1.2 and s <= avg * 0.8, on exact fractions
        booms == Cardinality({i \in DOMAIN scores : 5 * n * scores[i] >= 6 * total})
        busts == Cardinality({i \in DOMAIN scores : 5 * n * scores[i] <= 4 * total})
    IN [key |-> data.key,
        gamesPlayed |-> n,
        avgScore |-> ToFixed(Frac(total, n), 2),
        floor |-> floor,
        ceiling |-> ceiling,
        range |-> ceiling - floor,
        boomGames |-> booms,
        bustGames |-> busts,
        boomRate |-> ToFixed(Frac(booms * 100, n), 1),
        bustRate |-> ToFixed(Frac(busts * 100, n), 1),
        highScore |-> CHOOSE x \in Range(scores) : \A y \in Range(scores) : y <= x,
        lowScore |-> CHOOSE x \in Range(scores) : \A y \in Range(scores) : x <= y,
        seasonsPlayed |-> Cardinality(data.years)]

calculateConsistencyMetrics(an, view) ==
    LET teamScores == addTeamScores(<<>>, an, view, scoreEntries(an, view), 1)
    IN {consistencyRow(teamScores[i]) :
          i \in {j \in DOMAIN teamScores :
                   /\ ~hiddenFromView(an, view, teamScores[j].key)
                   /\ enoughScores(teamScores[j].scores)}}

-----------------------------------------------------------------------------
(* AdvancedAnalytics.calculateCloseGamePerformance                          *)
(*                                                                          *)
(* The final sort is by clutchFactor, which can be NaN; the order is not    *)
(* modelled and the result is the set of the rows.                          *)

closeThresholdDefault == 5
blowoutThresholdDefault == 30

isCloseGameExclusive(m, closeThreshold) == m.margin < closeThreshold

isCloseGame(m, closeThreshold) == m.margin <= closeThreshold

isBlowout(m, blowoutThreshold) == m.margin > blowoutThreshold

NewClutch(key) ==
    [key |-> key, closeWins |-> 0, closeLosses |-> 0, blowoutWins |-> 0,
     blowoutLosses |-> 0, totalCloseGames |-> 0,
     avgMarginInWins |-> <<>>, avgMarginInLosses |-> <<>>, years |-> {}]

\* `if (!stats.has(key)) stats.set(key, {...}); stats.get(key).years.add(m.year)`
touchClutch(stats, key, year) ==
    LET withKey == IF keyIndex(stats, key) = 0
                   THEN Append(stats, NewClutch(key)) ELSE stats
    IN [withKey EXCEPT ![keyIndex(withKey, key)].years = @ \cup {year}]

winnerSide(data, m, close, blowout) ==
    [data EXCEPT !.closeWins = IF close THEN @ + 1 ELSE @,
                 !.totalCloseGames = IF close THEN @ + 1 ELSE @,
                 !.blowoutWins = IF blowout THEN @ + 1 ELSE @,
                 !.avgMarginInWins = Append(@, m.margin)]

loserSide(data, m, close, blowout) ==
    [data EXCEPT !.closeLosses = IF close THEN @ + 1 ELSE @,
                 !.totalCloseGames = IF close THEN @ + 1 ELSE @,
                 !.blowoutLosses = IF blowout THEN @ + 1 ELSE @,
                 !.avgMarginInLosses = Append(@, m.margin)]

RECURSIVE addClutch(_, _, _, _, _, _, _)
\* `matchupsToUse.forEach(m => ...)`, from matchup i on
addClutch(stats, an, closeThreshold, blowoutThreshold, view, matchups, i) ==
    IF i > Len(matchups) THEN stats
    ELSE LET m == matchups[i]
             close == isCloseGame(m, closeThreshold)
             blowout == isBlowout(m, blowoutThreshold)
             winnerKey == keyOf(an, view, m.winnerId, m.year)
             loserKey == keyOf(an, view, m.loserId, m.year)
             touched == touchClutch(touchClutch(stats, winnerKey, m.year),
                                    loserKey, m.year)
             won == [touched EXCEPT ![keyIndex(touched, winnerKey)] =
                                       winnerSide(@, m, close, blowout)]
             lost == [won EXCEPT ![keyIndex(won, loserKey)] =
                                    loserSide(@, m, close, blowout)]
         IN addClutch(lost, an, closeThreshold, blowoutThreshold, view, matchups, i + 1)

clutchStats(an, closeThreshold, blowoutThreshold, view) ==
    addClutch(<<>>, an, closeThreshold, blowoutThreshold, view,
              matchupsToUse(an, view), 1)

\* percentages in tenths, margins in hundredths; overallWinPct and
\* clutchFactor are NaN when the identity has neither a close game nor a
\* blowout (0 / 0)
clutchRow(data) ==
    LET closeWinPct == IF data.totalCloseGames > 0
                       THEN Frac(data.closeWins * 100, data.totalCloseGames)
                       ELSE Frac(0, 1)
        avgOf(margins) == IF Len(margins) > 0
                          THEN Frac(SumSeq(margins), Len(margins)) ELSE Frac(0, 1)
        totalWins == data.closeWins + data.blowoutWins
        totalLosses == data.closeLosses + data.blowoutLosses
        defined == totalWins + totalLosses > 0
        overallWinPct == Frac(totalWins * 100, totalWins + totalLosses)
    IN [key |-> data.key,
        closeWins |-> data.closeWins,
        closeLosses |-> data.closeLosses,
        closeGameWinPct |-> ToFixed(closeWinPct, 1),
        blowoutWins |-> data.blowoutWins,
        blowoutLosses |-> data.blowoutLosses,
        totalCloseGames |-> data.totalCloseGames,
        overallWinPct |-> IF defined THEN Num(ToFixed(overallWinPct, 1)) ELSE NaN,
        clutchFactor |-> IF defined
                         THEN Num(ToFixed(FracSub(closeWinPct, overallWinPct), 1))
                         ELSE NaN,
        avgWinMargin |-> ToFixed(avgOf(data.avgMarginInWins), 2),
        avgLossMargin |-> ToFixed(avgOf(data.avgMarginInLosses), 2),
        seasonsPlayed |-> Cardinality(data.years)]

calculateCloseGamePerformance(an, closeThreshold, blowoutThreshold, view) ==
    LET stats == clutchStats(an, closeThreshold, blowoutThreshold, view)
    IN {clutchRow(stats[i]) :
          i \in {j \in DOMAIN stats : ~hiddenFromView(an, view, stats[j].key)}}

-----------------------------------------------------------------------------
(* AdvancedAnalytics.calculateStrengthOfSchedule                            *)
(*                                                                          *)
(* The scores of the model are positive, so the league average is not 0.    *)

\* the two sides of a matchup, home first
sidesOf(m) ==
    <<[id |-> m.homeTeamId, score |-> m.homeScore, won |-> m.homeScore > m.awayScore,
       oppId |-> m.awayTeamId, oppScore |-> m.awayScore, year |-> m.year],
      [id |-> m.awayTeamId, score |-> m.awayScore, won |-> m.awayScore > m.homeScore,
       oppId |-> m.homeTeamId, oppScore |-> m.homeScore, year |-> m.year]>>

sidesOfAll(matchups) == Flatten([i \in DOMAIN matchups |-> sidesOf(matchups[i])])

RECURSIVE addTeamRecords(_, _, _, _, _)
\* teamAvgScores and teamRecords, which share their keys, from side i on
addTeamRecords(records, an, view, sides, i) ==
    IF i > Len(sides) THEN records
    ELSE LET side == sides[i]
             key == keyOf(an, view, side.id, side.year)
             withKey == IF keyIndex(records, key) = 0
                        THEN Append(records, [key |-> key, scores |-> <<>>, years |-> {},
                                              wins |-> 0, losses |-> 0])
                        ELSE records
             k == keyIndex(withKey, key)
         IN addTeamRecords(
               [withKey EXCEPT ![k] =
                  [@ EXCEPT !.scores = Append(@, side.score),
                            !.years = @ \cup {side.year},
                            !.wins = IF side.won THEN @ + 1 ELSE @,
                            !.losses = IF side.won THEN @ ELSE @ + 1]],
               an, view, sides, i + 1)

teamRecordsOf(an, view) ==
    addTeamRecords(<<>>, an, view, sidesOfAll(matchupsToUse(an, view)), 1)

RECURSIVE addSosData(_, _, _, _, _)
addSosData(sosData, an, view, sides, i) ==
    IF i > Len(sides) THEN sosData
    ELSE LET side == sides[i]
             key == keyOf(an, view, side.id, side.year)
             oppKey == keyOf(an, view, side.oppId, side.year)
             withKey == IF keyIndex(sosData, key) = 0
                        THEN Append(sosData, [key |-> key, opponentScores |-> <<>>,
                                              opponentKeys |-> <<>>, years |-> {}])
                        ELSE sosData
             k == keyIndex(withKey, key)
         IN addSosData(
               [withKey EXCEPT ![k] =
                  [@ EXCEPT !.opponentScores = Append(@, side.oppScore),
                            !.opponentKeys = Append(@, oppKey),
                            !.years = @ \cup {side.year}]],
               an, view, sides, i + 1)

RECURSIVE FracSum(_)
FracSum(fs) == IF fs = <<>> THEN Frac(0, 1) ELSE FracAdd(Head(fs), FracSum(Tail(fs)))

\* percentages and the index in tenths, scores in hundredths
sosRow(data, records) ==
    LET allScores == Flatten([i \in DOMAIN records |-> records[i].scores])
        leagueAvg == Frac(SumSeq(allScores), Len(allScores))
        n == Len(data.opponentScores)
        avgOppScore == Frac(SumSeq(data.opponentScores), n)
        winPctOfKey(key) ==
            LET rec == records[keyIndex(records, key)]
            IN Frac(rec.wins, rec.wins + rec.losses)
        oppWinPcts == [i \in DOMAIN data.opponentKeys |-> winPctOfKey(data.opponentKeys[i])]
        total == FracSum(oppWinPcts)
        avgOppWinPct100 == Frac(total.num * 100, total.den * n)
        sosIndex == Frac(avgOppScore.num * leagueAvg.den * 100,
                         avgOppScore.den * leagueAvg.num)
        myWinPct == winPctOfKey(data.key)
        myWinPct100 == Frac(myWinPct.num * 100, myWinPct.den)
        bonus == FracSub(sosIndex, Frac(100, 1))
    IN [key |-> data.key,
        avgOpponentScore |-> ToFixed(avgOppScore, 2),
        avgOpponentWinPct |-> ToFixed(avgOppWinPct100, 1),
        sosIndex |-> ToFixed(sosIndex, 1),
        leagueAvgScore |-> ToFixed(leagueAvg, 2),
        gamesPlayed |-> n,
        teamWinPct |-> ToFixed(myWinPct100, 1),
        adjustedWinPct |-> ToFixed(FracAdd(myWinPct100, Frac(bonus.num, bonus.den * 2)), 1),
        seasonsPlayed |-> Cardinality(data.years)]

harderBefore(a, b) == b.sosIndex - a.sosIndex < 0

calculateStrengthOfSchedule(an, view) ==
    LET sides == sidesOfAll(matchupsToUse(an, view))
        records == addTeamRecords(<<>>, an, view, sides, 1)
        sosData == addSosData(<<>>, an, view, sides, 1)
        shown(data) == ~hiddenFromView(an, view, data.key)
        kept == SelectSeq(sosData, shown)
    IN StableSort([i \in DOMAIN kept |-> sosRow(kept[i], records)], harderBefore)

-----------------------------------------------------------------------------
(* AdvancedAnalytics.getHighestSingleGameScore and generateFullReport *)

earlyEraLastYear == 2017
earlyEraLastWeek == 12

\* the weeks that getHighestSingleGameScore does not skip
countsAsSingleGame(an, year, week) ==
    /\ week \in Get(an.regularSeasonWeeks, year, {})
    /\ ~(year <= earlyEraLastYear /\ week > earlyEraLastWeek)

NoHighest == [score |-> 0, ownerId |-> "", year |-> 0, week |-> 0]

RECURSIVE highestFrom(_, _, _, _)
\* the scan of the scores in the order of years, weeks and team ids; the
\* owner id stands for the display name of the owner
highestFrom(highest, an, entries, i) ==
    IF i > Len(entries) THEN highest
    ELSE LET e == entries[i]
             ownerId == getOwnerId(an, e.teamId, e.year)
             counted == /\ countsAsSingleGame(an, e.year, e.week)
                        /\ ownerId # ""
                        /\ isCurrentOwner(an, ownerId)
                        /\ e.score > highest.score
         IN highestFrom(
               IF counted THEN [score |-> e.score, ownerId |-> ownerId,
                                year |-> e.year, week |-> e.week]
               ELSE highest,
               an, entries, i + 1)

getHighestSingleGameScore(an) == highestFrom(NoHighest, an, scoreEntries(an, AllTime), 1)

\* the report without its timestamp
generateFullReport(an, closeThreshold, blowoutThreshold) ==
    [view |-> AllTime,
     luck |-> [allTime |-> calculateLuckScores(an, AllTime),
               bySeasonSummary |-> getSeasonLuckBreakdown(an)],
     consistency |-> calculateConsistencyMetrics(an, AllTime),
     highestSingleGame |-> getHighestSingleGameScore(an),
     clutch |-> calculateCloseGamePerformance(an, closeThreshold, blowoutThreshold,
                                              AllTime),
     strengthOfSchedule |-> calculateStrengthOfSchedule(an, AllTime)]

\* what the methods that take a year return for the year, the thresholds of
\* calculateCloseGamePerformance left at their defaults
seasonReport(an, year) ==
    [view |-> year,
     allPlay |-> calculateAllPlayRecord(an, year),
     luck |-> calculateLuckScores(an, year),
     consistency |-> calculateConsistencyMetrics(an, year),
     clutch |-> calculateCloseGamePerformance(an, closeThresholdDefault,
                                              blowoutThresholdDefault, year),
     strengthOfSchedule |-> calculateStrengthOfSchedule(an, year)]

-----------------------------------------------------------------------------
(* The inputs: year -> payload mappings *)

\* the teams of the league; one id has two digits
TeamIdSeq == <<1, 2, 10>>

TeamIds == Range(TeamIdSeq)

OwnerOf(id) == IF id = 1 THEN SamId ELSE IF id = 2 THEN TrevorId ELSE "owner-other"

NoSettings == [regularSeasonMatchupPeriods |-> 0, playoffTeamCount |-> 0]

RawTeam(id, overall, rank, seed) ==
    [id |-> id, name |-> "", primaryOwner |-> "",
     record |-> [overall |-> overall],
     rankCalculatedFinal |-> rank, playoffSeed |-> seed,
     owners |-> <<OwnerOf(id)>>]

RawMatchup(week, homeId, homeScore, awayId, awayScore, tier) ==
    [matchupPeriodId |-> week,
     home |-> [teamId |-> homeId, totalPoints |-> homeScore],
     away |-> [teamId |-> awayId, totalPoints |-> awayScore],
     playoffTierType |-> tier]

ErrorPayload ==
    [error |-> TRUE, hasTeams |-> FALSE, teams |-> <<>>, schedule |-> <<>>,
     settings |-> NoSettings]

Payload(teams, schedule) ==
    [error |-> FALSE, hasTeams |-> TRUE, teams |-> teams, schedule |-> schedule,
     settings |-> NoSettings]

NoTeamsPayload(schedule) ==
    [error |-> FALSE, hasTeams |-> FALSE, teams |-> <<>>, schedule |-> schedule,
     settings |-> NoSettings]

EvenRecord ==
    [wins |-> 1, losses |-> 1, ties |-> 0, pointsFor |-> 190, pointsAgainst |-> 190]

WinningRecord ==
    [wins |-> 2, losses |-> 1, ties |-> 0, pointsFor |-> 300, pointsAgainst |-> 280]

LosingRecord ==
    [wins |-> 1, losses |-> 2, ties |-> 1, pointsFor |-> 250, pointsAgainst |-> 310]

\* the whole league with level records, no final ranks and no seeds
LeagueTeams == [i \in DOMAIN TeamIdSeq |-> RawTeam(TeamIdSeq[i], EvenRecord, 0, 0)]

\* <<home, away>>: team 2 meets the two others, home and away
Fixtures == {<<1, 2>>, <<2, 1>>, <<2, 10>>, <<10, 2>>}

\* <<home score, away score>>: a home win, an away win, a tie
Results == {<<100, 90>>, <<90, 100>>, <<100, 100>>}

\* a regular-season game: who is home, who is away and the scores
Games ==
    {RawMatchup(0, f[1], r[1], f[2], r[2], "") : f \in Fixtures, r \in Results}

\* the schedules of n games, one game per week, starting in week `first`
Schedules(first, n) ==
    {[i \in 1..n |-> [f[i] EXCEPT !.matchupPeriodId = first - 1 + i]] :
        f \in [1..n -> Games]}

\* two seasons of the same league with at most MaxMatchups games in all
H2HInputs ==
    UNION {{(2015 :> Payload(LeagueTeams, s1)) @@ (2016 :> Payload(LeagueTeams, s2)) :
               s1 \in Schedules(1, n[1]), s2 \in Schedules(1, n[2])} :
           n \in {m \in (0..MaxMatchups) \X (0..MaxMatchups) : m[1] + m[2] <= MaxMatchups}}

\* the team lists of a season of the career inputs: up to MaxTeams teams of the
\* league, in the order of the league, each with a winning or a losing record
CareerTeamLists ==
    UNION {{[i \in 1..Len(ids) |-> RawTeam(ids[i], rec[i], 0, 0)] :
               rec \in [1..Len(ids) -> {WinningRecord, LosingRecord}]} :
           ids \in {SetToSeq(S) : S \in {T \in SUBSET TeamIds : Cardinality(T) <= MaxTeams}}}

\* the first two teams of the list meet in week 1
CareerSchedule(teams) ==
    IF Len(teams) < 2 THEN <<>>
    ELSE <<RawMatchup(1, teams[1].id, 100, teams[2].id, 90, "")>>

\* a payload of the career inputs: an error, a payload without a team list
\* (with or without a schedule), or a season
CareerPayloads ==
    {ErrorPayload, NoTeamsPayload(<<>>), NoTeamsPayload(<<RawMatchup(1, 1, 100, 2, 90, "")>>)}
    \cup {Payload(teams, CareerSchedule(teams)) : teams \in CareerTeamLists}

CareerInputs == [{2015, 2016} -> CareerPayloads]

\* the final ranks of the league: nobody ranked, or ranks 1 and 2 given to
\* at most one team each
RankLists ==
    {r \in [DOMAIN TeamIdSeq -> {0, 1, 2}] :
        \A i, j \in DOMAIN TeamIdSeq : (i # j /\ r[i] # 0) => r[i] # r[j]}

\* a playoff game of week 14 or 15: a winners-bracket game, decided or tied,
\* or a consolation game
PlayoffGames ==
    {RawMatchup(w, f[1], f[2], f[3], f[4], "WINNERS_BRACKET") :
        w \in {14, 15},
        f \in {<<1, 100, 2, 90>>, <<10, 90, 1, 100>>, <<2, 100, 10, 100>>}}
    \cup {RawMatchup(w, 10, 100, 2, 90, "LOSERS_CONSOLATION_LADDER") : w \in {14, 15}}

PlayoffSchedules ==
    UNION {[1..n -> PlayoffGames] : n \in 0..MaxPlayoffGames}

\* one season: the final ranks and the playoff games vary
BracketInputs ==
    {(2016 :> Payload([i \in DOMAIN TeamIdSeq |->
                          RawTeam(TeamIdSeq[i], EvenRecord, r[i], 0)], s)) :
        r \in RankLists, s \in PlayoffSchedules}

\* one season without final ranks: the records vary, the seeds are drawn from
\* SeedLists, and the final, if there is one, is tied
UnrankedSeasons(SeedLists) ==
    {(2016 :> Payload([i \in DOMAIN TeamIdSeq |->
                          RawTeam(TeamIdSeq[i], rec[i], 0, seed[i])], s)) :
        rec \in [DOMAIN TeamIdSeq -> {WinningRecord, LosingRecord}],
        seed \in SeedLists,
        s \in {<<>>, <<RawMatchup(15, 2, 100, 10, 100, "WINNERS_BRACKET")>>}}

\* any team may lack a seed
AnySeeds == [DOMAIN TeamIdSeq -> 0..MaxSeed]

\* the provider reports a seed for every team or for none
AllOrNoSeeds == [DOMAIN TeamIdSeq -> 1..MaxSeed] \cup {[i \in DOMAIN TeamIdSeq |-> 0]}

ChampionInputs == BracketInputs \cup UnrankedSeasons(AnySeeds)

FallbackInputs == UnrankedSeasons(AllOrNoSeeds)

\* one season of a large league: the size, the team with the winning record
\* and the team of final rank 1 vary
LeaderInputs ==
    {(2020 :> Payload([i \in 1..c[1] |->
                          RawTeam(i, IF i = c[2] THEN WinningRecord ELSE LosingRecord,
                                  IF i = c[3] THEN 1 ELSE 0, 0)], <<>>)) :
        c \in {d \in ((MaxLeague - 2)..MaxLeague) \X (1..MaxLeague) \X (1..MaxLeague) :
                  d[2] <= d[1] /\ d[3] <= d[1]}}

\* a team of the analytics inputs, with its owners
OwnedTeam(id, owners) == [RawTeam(id, EvenRecord, 0, 0) EXCEPT !.owners = owners]

\* a league of four teams; the owners of teams 1 and 2 are co-owners
WeekTeams ==
    <<OwnedTeam(1, <<SamId>>), OwnedTeam(2, <<TrevorId>>),
      OwnedTeam(10, <<"owner-10">>), OwnedTeam(11, <<"owner-11">>)>>

\* what <<home, away>> score above the base score of their game: margins 0, 3,
\* 5, 10, 30 and 31
MarginResults == {<<0, 0>>, <<3, 0>>, <<0, 5>>, <<10, 0>>, <<30, 0>>, <<0, 31>>}

\* the games of a week have different base scores, so that two teams of a
\* week have the same score only if they are the two sides of a tied game
WeekGame(week, homeId, awayId, base, r) ==
    RawMatchup(week, homeId, base + r[1], awayId, base + r[2], "")

\* the playoff week of the week inputs: no game, a winners-bracket game, or
\* a winners-bracket game and a game without a playoff tier
PlayoffWeeks ==
    {<<>>,
     <<RawMatchup(14, 2, 120, 11, 80, "WINNERS_BRACKET")>>,
     <<RawMatchup(14, 2, 120, 11, 80, "WINNERS_BRACKET"),
       RawMatchup(14, 1, 100, 10, 90, "")>>}

\* one season: a full week of two games, a week with one game, and a playoff
\* week
WeekInputs ==
    {(2016 :> Payload(WeekTeams,
                 <<WeekGame(1, 1, 2, 100, r[1]), WeekGame(1, 10, 11, 150, r[2]),
                   WeekGame(2, 10, 1, 100, r[3])>> \o p)) :
        r \in [1..3 -> MarginResults],
        p \in PlayoffWeeks}

\* the owners of a team: none, or the one owner
OwnersOf(ownerId) == IF ownerId = "" THEN <<>> ELSE <<ownerId>>

\* <<home score, away score>> of a game of the earlier season
EarlyResults == {<<100, 90>>, <<90, 100>>}

\* two seasons of a league of three teams.  In 2016 the teams belong to the
\* co-owners and to "owner-10"; in 2015 team 1 and team 2 may belong to
\* "owner-old", who has left since, and team 10 may have no owner.  The
\* results of 2015 vary, those of 2016 are fixed.
OwnerInputs ==
    {(2015 :> Payload(<<OwnedTeam(1, OwnersOf(o[1])), OwnedTeam(2, OwnersOf(o[2])),
                        OwnedTeam(10, OwnersOf(o[3]))>>,
                      <<RawMatchup(1, 1, r[1][1], 2, r[1][2], ""),
                        RawMatchup(2, 2, r[2][1], 10, r[2][2], ""),
                        RawMatchup(3, 10, r[3][1], 1, r[3][2], "")>>))
     @@ (2016 :> Payload(<<OwnedTeam(1, <<SamId>>), OwnedTeam(2, <<TrevorId>>),
                           OwnedTeam(10, <<"owner-10">>)>>,
                         <<RawMatchup(1, 1, 120, 2, 114, ""),
                           RawMatchup(2, 10, 131, 1, 125, "")>>)) :
        o \in {SamId, "owner-old"} \X {TrevorId, "owner-old"} \X {"owner-10", ""},
        r \in [1..3 -> EarlyResults]}

\* the payloads of a season of the current-owner inputs: an error, a payload
\* without a team list, a league of two teams one of which belongs to a
\* co-owner, or one team with two owners
CurrentPayloads ==
    {ErrorPayload, NoTeamsPayload(<<>>),
     Payload(<<OwnedTeam(1, <<SamId>>), OwnedTeam(2, <<"owner-a">>)>>,
             <<RawMatchup(1, 1, 100, 2, 90, "")>>),
     Payload(<<OwnedTeam(1, <<"owner-b", TrevorId>>)>>, <<>>)}

\* three seasons, the first of them before minYear
CurrentInputs == [{2010, 2015, 2016} -> CurrentPayloads]

\* one season of the league of three teams: teams 1 and 2 meet in each of the
\* first k weeks, k up to MaxMatchups + 1, and team 10 may play one game in
\* the week after
ScoreInputs ==
    UNION {{(2016 :> Payload(<<OwnedTeam(1, <<"owner-1">>), OwnedTeam(2, <<"owner-2">>),
                               OwnedTeam(10, <<"owner-10">>)>>,
                             [i \in 1..k |-> RawMatchup(i, 1, r[i][1], 2, r[i][2], "")]
                             \o last)) :
               r \in [1..k -> EarlyResults],
               last \in {<<>>} \cup {<<RawMatchup(k + 1, 10, 105, opp, 95, "")>> :
                                        opp \in {1, 2}}} :
           k \in 0..(MaxMatchups + 1)}

\* one season of 2015..2018 with a game in week 12 and a game in week 13 or
\* 14, a regular-season game or a playoff game; either game may have the
\* higher scores
EraInputs ==
    {(y :> Payload(<<OwnedTeam(1, <<"owner-1">>), OwnedTeam(2, <<"owner-2">>),
                     OwnedTeam(10, <<"owner-10">>)>>,
                   <<RawMatchup(12, 1, 100 + h, 2, 90 + h, ""),
                     RawMatchup(w, 10, 120, 1, 110, tier)>>)) :
        y \in 2015..2018, w \in {13, 14}, tier \in {"", "WINNERS_BRACKET"},
        h \in {0, 40}}

\* a team with a name and a primary owner, either of which may be missing
NamedTeam(id, name, ownerId) ==
    [RawTeam(id, EvenRecord, 0, 0) EXCEPT !.name = name, !.primaryOwner = ownerId,
                                          !.owners = OwnersOf(ownerId)]

\* two seasons of the league of three teams: the name of team 1 in each
\* season and its owner in 2015 vary, and so do two results
NamedInputs ==
    {(2015 :> Payload(<<NamedTeam(1, n[1], o), NamedTeam(2, "Bravo", "owner-2"),
                        NamedTeam(10, "", "owner-10")>>,
                      <<RawMatchup(1, 1, r[1][1], 2, r[1][2], ""),
                        RawMatchup(2, 2, 105, 10, 95, "")>>))
     @@ (2016 :> Payload(<<NamedTeam(1, n[2], "owner-1"), NamedTeam(2, "Bravo", "owner-2"),
                           NamedTeam(10, "Charlie", "owner-10")>>,
                         <<RawMatchup(1, 1, r[2][1], 10, r[2][2], ""),
                           RawMatchup(2, 2, 120, 1, 114, "")>>)) :
        n \in {"Old Alpha", ""} \X {"Alpha", ""},
        o \in {"owner-1", "owner-old", ""},
        r \in [1..2 -> EarlyResults]}

\* one season of two teams: the name of team 1 varies
CacheInputs ==
    {(2016 :> Payload(<<NamedTeam(1, n, "owner-1"), NamedTeam(2, "Bravo", "owner-2")>>,
                      <<RawMatchup(1, 1, 100, 2, 90, "")>>)) :
        n \in {"Alpha", "Alfa"}}

\* the cache and the fetch time that an earlier version of the application
\* left on day 0
OutdatedCache ==
    (storageKey :> [allSeasonData |-> <<>>, teamNameMap |-> <<>>,
                    cacheVersion |-> CACHE_VERSION - 1])
      @@ (lastFetchKey :> NumToString(0))

\* what the browser holds when the page opens: nothing, or an outdated cache
StoredBefore == {<<>>, OutdatedCache}

\* the seasons of the static file
StaticSeasons ==
    (2016 :> Payload(<<NamedTeam(1, "Static", "owner-1"), NamedTeam(2, "Bravo", "owner-2")>>,
                     <<RawMatchup(1, 1, 100, 2, 90, "")>>))

\* what /data/league-data.json serves: nothing, the output of a build in
\* which every year failed, or the output of a build with one season
StaticFiles ==
    {NoFile,
     [meta |-> [successCount |-> 0], seasons |-> (2016 :> ErrorPayload)],
     [meta |-> [successCount |-> 1], seasons |-> StaticSeasons]}

\* the seasons that the provider has for a live fetch
LiveSeasons ==
    (2016 :> Payload(<<NamedTeam(1, "Live", "owner-1"), NamedTeam(2, "Bravo", "owner-2")>>,
                     <<RawMatchup(1, 1, 100, 2, 90, "")>>))

\* the seasons that an earlier visit fetched
CachedSeasons ==
    (2016 :> Payload(<<NamedTeam(1, "Cached", "owner-1"), NamedTeam(2, "Bravo", "owner-2")>>,
                     <<RawMatchup(1, 1, 100, 2, 90, "")>>))

\* the cache that an earlier visit of this version left
CurrentCache ==
    (storageKey :> serializable(CachedSeasons,
                                buildTeamNameMap([teamNameMap |-> <<>>,
                                                  ownerNameMap |-> <<>>,
                                                  ownerHistory |-> <<>>],
                                                 CachedSeasons).teamNameMap,
                                <<>>))

\* what the browser holds on day cacheDays when the page opens: nothing, an
\* outdated cache, a cache without a fetch time, or a cache fetched on day 0
\* or on day 1
BrowserBefore ==
    {<<>>, OutdatedCache, CurrentCache}
    \cup {CurrentCache @@ (lastFetchKey :> NumToString(day)) : day \in {0, 1}}


-----------------------------------------------------------------------------
(* The state machine *)

MaxTeamCount(data) ==
    LET counts == {Len(data[y].teams) : y \in DOMAIN data} \cup {1}
    IN CHOOSE n \in counts : \A m \in counts : m <= n

\* the seasons whose champion fallback has no consistent comparefn
UnorderedSeasons(data) ==
    {y \in DOMAIN data :
        ~skipsSeason(data[y]) /\ ~ConsistentOn(parseTeams(data[y]), fallbackBefore)}

\* the choices an engine's sort can make: for each such season the index of
\* the team it puts first
PickChoices(data) ==
    LET open == UnorderedSeasons(data)
    IN {[y \in DOMAIN data |-> IF y \in open THEN f[y] ELSE 1] :
           f \in {g \in [open -> 1..MaxTeamCount(data)] :
                     \A y \in open : g[y] <= Len(data[y].teams)}}

NoReport == [null |-> TRUE]

Fresh ==
    /\ allSeasonData = <<>>
    /\ aggregatedStats = NullStats
    /\ teamNameMap = <<>>
    /\ ownerNameMap = <<>>
    /\ ownerHistory = <<>>
    /\ analytics = NullAnalytics
    /\ report = NoReport
    /\ teamNameMapByString = <<>>
    /\ localStorage = <<>>
    /\ result = NoResult
    /\ staticFile = NoFile
    /\ now = 0
    /\ app = NewApp
    /\ build = NewBuild

\* the assignments of loadAllSeasons(data) to the engine
Loads(data) ==
    /\ LET names == buildTeamNameMap([teamNameMap |-> teamNameMap,
                                      ownerNameMap |-> ownerNameMap,
                                      ownerHistory |-> ownerHistory], data)
       IN /\ teamNameMap' = names.teamNameMap
          /\ ownerNameMap' = names.ownerNameMap
          /\ ownerHistory' = names.ownerHistory
          /\ \E pick \in PickChoices(data) :
                aggregatedStats' = aggregateAllStats(data, pick, names)
    /\ allSeasonData' = data

\* StatsEngine.loadAllSeasons(rawData); the engine may load again
LoadAllSeasons ==
    /\ \A ownerId \in DOMAIN ownerHistory : Len(ownerHistory[ownerId]) < MaxHistory
    /\ Loads(rawData)
    /\ UNCHANGED <<rawData, analytics, report, storageVars, appVars, build>>

\* new AdvancedAnalytics({ seasons: rawData })
NewAdvancedAnalytics ==
    /\ analytics' = LET an == parseData(rawData)
                    IN [an EXCEPT !.currentOwnerIds = identifyCurrentOwners(an)]
    /\ report' = NoReport
    /\ UNCHANGED <<rawData, allSeasonData, aggregatedStats, teamNameMap,
                   ownerNameMap, ownerHistory, storageVars, appVars, build>>

\* analytics.generateFullReport(5, 30)
GenerateFullReport ==
    /\ ~IsNull(analytics)
    /\ report' = generateFullReport(analytics, 5, 30)
    /\ UNCHANGED <<rawData, allSeasonData, aggregatedStats, teamNameMap,
                   ownerNameMap, ownerHistory, analytics, storageVars, appVars, build>>

\* the analytics of one season: calculateAllPlayRecord(year),
\* calculateLuckScores(year), calculateConsistencyMetrics(year),
\* calculateCloseGamePerformance(5, 30, year), calculateStrengthOfSchedule(year)
CalculateSeason ==
    /\ ~IsNull(analytics)
    /\ \E year \in DOMAIN rawData : report' = seasonReport(analytics, year)
    /\ UNCHANGED <<rawData, allSeasonData, aggregatedStats, teamNameMap,
                   ownerNameMap, ownerHistory, analytics, storageVars, appVars, build>>

Next == LoadAllSeasons \/ NewAdvancedAnalytics \/ GenerateFullReport \/ CalculateSeason

\* new StatsEngine(), in the same browser
NewStatsEngine ==
    /\ allSeasonData' = <<>>
    /\ aggregatedStats' = NullStats
    /\ teamNameMap' = <<>>
    /\ teamNameMapByString' = <<>>
    /\ ownerNameMap' = <<>>
    /\ ownerHistory' = <<>>
    /\ UNCHANGED <<rawData, analytics, report, localStorage, result, appVars, build>>

\* statsEngine.saveToStorage(); setItem throws when the quota is exceeded
SaveToStorage ==
    /\ \E stored \in BOOLEAN :
          /\ result' = IF stored THEN "true" ELSE "false"
          /\ localStorage' =
                IF stored
                THEN Put(localStorage, storageKey,
                         serializable(allSeasonData, teamNameMap, teamNameMapByString))
                ELSE localStorage
    /\ UNCHANGED <<rawData, allSeasonData, aggregatedStats, teamNameMap, ownerNameMap,
                   ownerHistory, analytics, report, teamNameMapByString, appVars, build>>

\* the assignments of clearStorage to the engine
ClearEngine ==
    /\ allSeasonData' = <<>>
    /\ aggregatedStats' = NullStats
    /\ teamNameMap' = <<>>
    /\ teamNameMapByString' = <<>>
    /\ ownerHistory' = <<>>
    /\ UNCHANGED ownerNameMap

\* statsEngine.clearStorage()
ClearStorage ==
    /\ localStorage' = removeItem(removeItem(localStorage, storageKey), lastFetchKey)
    /\ ClearEngine
    /\ UNCHANGED <<rawData, analytics, report, result, appVars, build>>

\* the three ways of loadFromStorage: no entry, an entry of another cache
\* version, an entry of this version
LoadStored ==
    IF storageKey \notin DOMAIN localStorage
    THEN /\ result' = "false"
         /\ UNCHANGED <<allSeasonData, aggregatedStats, teamNameMap, ownerNameMap,
                        ownerHistory, teamNameMapByString, localStorage>>
    ELSE LET data == localStorage[storageKey]
         IN IF outdated(data)
            THEN /\ localStorage' =
                       removeItem(removeItem(localStorage, storageKey), lastFetchKey)
                 /\ ClearEngine
                 /\ result' = "false"
            ELSE /\ allSeasonData' = data.allSeasonData
                 /\ teamNameMap' = <<>>
                 /\ teamNameMapByString' = data.teamNameMap
                 /\ \E pick \in PickChoices(data.allSeasonData) :
                       aggregatedStats' =
                           aggregateAllStats(data.allSeasonData, pick,
                                             [teamNameMap |-> <<>>,
                                              ownerNameMap |-> ownerNameMap,
                                              ownerHistory |-> ownerHistory])
                 /\ result' = "true"
                 /\ UNCHANGED <<ownerNameMap, ownerHistory, localStorage>>

\* statsEngine.loadFromStorage()
LoadFromStorage ==
    /\ LoadStored
    /\ UNCHANGED <<rawData, analytics, report, appVars, build>>

\* the provider has other data for the next fetch
ReceiveData ==
    /\ rawData' \in CacheInputs
    /\ UNCHANGED <<allSeasonData, aggregatedStats, teamNameMap, ownerNameMap,
                   ownerHistory, analytics, report, storageVars, appVars, build>>

\* autoLoadData from the answer to the request of the static file on: the
\* static file, else the cache, else loadLeagueData up to its await
AutoLoadData ==
    /\ app.pc = "static"
    /\ IF staticQualifies(staticFile)
       THEN /\ Loads(staticFile.seasons)
            /\ app' = [app EXCEPT !.pc = "done", !.dataLoaded = TRUE, !.status = "static"]
            /\ UNCHANGED storageVars
       ELSE /\ LoadStored
            /\ app' = IF result' = "true" /\ cacheValid(localStorage', now)
                      THEN [app EXCEPT !.pc = "done", !.dataLoaded = TRUE,
                                       !.status = "cache"]
                      ELSE [startLoading(app) EXCEPT !.pc = "done"]
    /\ UNCHANGED <<rawData, analytics, report, staticFile, now, build>>

\* the submit handler of the settings form: loadLeagueData up to its await
SubmitSettings ==
    /\ app.inFlight < MaxFetches
    /\ app' = startLoading(app)
    /\ UNCHANGED <<rawData, allSeasonData, aggregatedStats, teamNameMap, ownerNameMap,
                   ownerHistory, analytics, report, storageVars, staticFile, now, build>>

\* loadLeagueData from its await on.  getMultiSeasonData resolves with
\* rawData or rejects; saveToStorage may fail to store, and the setItem of
\* the fetch time may throw, which skips the rest of the try block
LoadLeagueDataEnds ==
    /\ app.inFlight > 0
    /\ \/ /\ \A ownerId \in DOMAIN ownerHistory :
                Len(ownerHistory[ownerId]) <= MaxReloads
          /\ Loads(rawData)
          /\ \E stored, stamped \in BOOLEAN :
                /\ result' = IF stored THEN "true" ELSE "false"
                /\ localStorage' =
                      LET saved == IF stored
                                   THEN Put(localStorage, storageKey,
                                            serializable(rawData, teamNameMap',
                                                         teamNameMapByString))
                                   ELSE localStorage
                      IN IF stamped THEN Put(saved, lastFetchKey, NumToString(now))
                         ELSE saved
                /\ app' = [endLoading(app) EXCEPT
                             !.dataLoaded = IF stamped THEN TRUE ELSE @,
                             !.status = IF stamped THEN "live" ELSE "error"]
          /\ UNCHANGED teamNameMapByString
       \/ /\ app' = [endLoading(app) EXCEPT !.status = "error"]
          /\ UNCHANGED <<allSeasonData, aggregatedStats, teamNameMap, ownerNameMap,
                         ownerHistory, storageVars>>
    /\ UNCHANGED <<rawData, analytics, report, staticFile, now, build>>

\* the click handler of the clear-cache button: clearStorage(),
\* `this.dataLoaded = false`, and location.reload(), which ends the page and
\* loads it again with a new engine and a new application
ClearCache ==
    /\ localStorage' = removeItem(removeItem(localStorage, storageKey), lastFetchKey)
    /\ allSeasonData' = <<>>
    /\ aggregatedStats' = NullStats
    /\ teamNameMap' = <<>>
    /\ teamNameMapByString' = <<>>
    /\ ownerNameMap' = <<>>
    /\ ownerHistory' = <<>>
    /\ result' = NoResult
    /\ app' = NewApp
    /\ UNCHANGED <<rawData, analytics, report, staticFile, now, build>>

\* the user loads the page again: a new engine and a new application in the
\* same browser
ReloadPage ==
    /\ app.pc = "done"
    /\ allSeasonData' = <<>>
    /\ aggregatedStats' = NullStats
    /\ teamNameMap' = <<>>
    /\ teamNameMapByString' = <<>>
    /\ ownerNameMap' = <<>>
    /\ ownerHistory' = <<>>
    /\ result' = NoResult
    /\ app' = NewApp
    /\ UNCHANGED <<rawData, analytics, report, localStorage, staticFile, now, build>>

\* a day passes
Tick ==
    /\ now < MaxDays
    /\ now' = now + 1
    /\ UNCHANGED <<rawData, allSeasonData, aggregatedStats, teamNameMap, ownerNameMap,
                   ownerHistory, analytics, report, storageVars, staticFile, app, build>>

NextApp ==
    \/ AutoLoadData
    \/ SubmitSettings
    \/ LoadLeagueDataEnds
    \/ ClearCache
    \/ ReloadPage
    \/ Tick

\* build() up to its loop
BuildStart ==
    /\ build.pc = "start"
    /\ build' = [build EXCEPT !.pc = "loop", !.year = startYear]
    /\ UNCHANGED <<rawData, allSeasonData, aggregatedStats, teamNameMap, ownerNameMap,
                   ownerHistory, analytics, report, storageVars, appVars>>

\* one pass of `for (let year = CONFIG.startYear; year <= CONFIG.currentYear; year++)`
BuildYear ==
    /\ build.pc = "loop"
    /\ build.year <= currentYear
    /\ \E answer \in Answers : build' = buildYear(build, answer)
    /\ UNCHANGED <<rawData, allSeasonData, aggregatedStats, teamNameMap, ownerNameMap,
                   ownerHistory, analytics, report, storageVars, appVars>>

\* after the loop: fs.writeFileSync(outputPath, JSON.stringify(outputData))
BuildWrite ==
    /\ build.pc = "loop"
    /\ build.year > currentYear
    /\ build' = [build EXCEPT !.pc = "done", !.output = outputData(build)]
    /\ UNCHANGED <<rawData, allSeasonData, aggregatedStats, teamNameMap, ownerNameMap,
                   ownerHistory, analytics, report, storageVars, appVars>>

NextBuild == BuildStart \/ BuildYear \/ BuildWrite

\* statsEngine.loadAllSeasons(rawData), at most MaxReloads times on top of an
\* earlier load
LoadFetched ==
    /\ \A ownerId \in DOMAIN ownerHistory : Len(ownerHistory[ownerId]) <= MaxReloads
    /\ LoadAllSeasons

NextStorage ==
    \/ LoadFetched
    \/ SaveToStorage
    \/ LoadFromStorage
    \/ ClearStorage
    \/ NewStatsEngine
    \/ ReceiveData

\* head-to-head inputs: the engine alone
InitH2H == rawData \in H2HInputs /\ Fresh

SpecH2H == InitH2H /\ [][LoadAllSeasons]_vars

\* career inputs: the engine and the analytics on the same data
InitCareer == rawData \in CareerInputs /\ Fresh

SpecCareer == InitCareer /\ [][Next]_vars

\* champion inputs: the engine alone
InitChampion == rawData \in ChampionInputs /\ Fresh

SpecChampion == InitChampion /\ [][LoadAllSeasons]_vars

\* fallback inputs: the engine alone
InitFallback == rawData \in FallbackInputs /\ Fresh

SpecFallback == InitFallback /\ [][LoadAllSeasons]_vars

\* leaderboard inputs: the engine alone
InitLeaders == rawData \in LeaderInputs /\ Fresh

SpecLeaders == InitLeaders /\ [][LoadAllSeasons]_vars

\* week inputs: the analytics and their reports
InitWeeks == rawData \in WeekInputs /\ Fresh

SpecWeeks == InitWeeks /\ [][Next]_vars

\* owner inputs: the analytics and their reports
InitOwners == rawData \in OwnerInputs /\ Fresh

SpecOwners == InitOwners /\ [][Next]_vars

\* current-owner inputs: the engine, the analytics and their reports
InitCurrent == rawData \in CurrentInputs /\ Fresh

SpecCurrent == InitCurrent /\ [][Next]_vars

\* cache inputs: the engine and its cache
InitStorage ==
    /\ rawData \in CacheInputs
    /\ allSeasonData = <<>>
    /\ aggregatedStats = NullStats
    /\ teamNameMap = <<>>
    /\ ownerNameMap = <<>>
    /\ ownerHistory = <<>>
    /\ analytics = NullAnalytics
    /\ report = NoReport
    /\ teamNameMapByString = <<>>
    /\ localStorage \in StoredBefore
    /\ result = NoResult
    /\ staticFile = NoFile
    /\ now = 0
    /\ app = NewApp
    /\ build = NewBuild

SpecStorage == InitStorage /\ [][NextStorage]_vars

\* the pre-builder, with no data in the browser
InitBuild == rawData = <<>> /\ Fresh

SpecBuild == InitBuild /\ [][NextBuild]_vars

\* the application in a browser, on day cacheDays
InitApp ==
    /\ rawData = LiveSeasons
    /\ allSeasonData = <<>>
    /\ aggregatedStats = NullStats
    /\ teamNameMap = <<>>
    /\ ownerNameMap = <<>>
    /\ ownerHistory = <<>>
    /\ analytics = NullAnalytics
    /\ report = NoReport
    /\ teamNameMapByString = <<>>
    /\ localStorage \in BrowserBefore
    /\ result = NoResult
    /\ staticFile \in StaticFiles
    /\ now = cacheDays
    /\ app = NewApp
    /\ build = NewBuild

SpecApp == InitApp /\ [][NextApp]_vars

\* score inputs: the engine, the analytics and their reports
InitScores == rawData \in ScoreInputs /\ Fresh

SpecScores == InitScores /\ [][Next]_vars

\* era inputs: the engine, the analytics and their reports
InitEra == rawData \in EraInputs /\ Fresh

SpecEra == InitEra /\ [][Next]_vars

\* named inputs: the engine, which may load again, the analytics, which may
\* be built again, and their reports
InitNamed == rawData \in NamedInputs /\ Fresh

SpecNamed == InitNamed /\ [][Next]_vars

-----------------------------------------------------------------------------
(* What the properties are stated over: the games of the input *)

Loaded == ~IsNull(aggregatedStats)

\* the years of the loaded input that carry no error and have a team list
ProcessedYears ==
    {y \in DOMAIN allSeasonData : ~allSeasonData[y].error /\ allSeasonData[y].hasTeams}

\* the games of the processed seasons, as <<year, position in the schedule>>
PlayedGames ==
    UNION {{<<y, i>> : i \in DOMAIN allSeasonData[y].schedule} : y \in ProcessedYears}

GameAt(p) == allSeasonData[p[1]].schedule[p[2]]

Between(a, b) ==
    {p \in PlayedGames : {GameAt(p).home.teamId, GameAt(p).away.teamId} = {a, b}}

Tied(p) == GameAt(p).home.totalPoints = GameAt(p).away.totalPoints

\* the score of team t in game p
ScoreOf(p, t) ==
    IF GameAt(p).home.teamId = t THEN GameAt(p).home.totalPoints
    ELSE GameAt(p).away.totalPoints

-----------------------------------------------------------------------------
(* C1: in every head-to-head record, team1Wins + team2Wins + ties is the     *)
(* number of entries of its matchups list, and team1Wins + team2Wins is the  *)
(* number of non-tied games the pair played in the processed seasons.        *)
C1_H2HCountsAddUp ==
    Loaded =>
        \A k \in DOMAIN aggregatedStats.h2hRecords :
            LET r == aggregatedStats.h2hRecords[k]
            IN /\ r.team1Wins + r.team2Wins + r.ties = Len(r.matchups)
               /\ r.team1Wins + r.team2Wins =
                     Cardinality({p \in Between(r.team1, r.team2) : ~Tied(p)})

\* a pair with a tied and a decided game
C1_Witness ==
    /\ Loaded
    /\ \E k \in DOMAIN aggregatedStats.h2hRecords :
          /\ aggregatedStats.h2hRecords[k].ties = 1
          /\ aggregatedStats.h2hRecords[k].team1Wins +
             aggregatedStats.h2hRecords[k].team2Wins = 1

(* C2: the games of two teams, whoever is home, are in one head-to-head      *)
(* record, with team1 the lower and team2 the higher id; no other record     *)
(* holds the pair, and the matrix and getH2HDetails find that record for     *)
(* both orders of the two ids.                                               *)
C2_OneRecordPerPair ==
    Loaded =>
        \A a \in TeamIds : \A b \in TeamIds :
            (a < b /\ Between(a, b) # {}) =>
                LET h2h == aggregatedStats.h2hRecords
                    K == {k \in DOMAIN h2h : {h2h[k].team1, h2h[k].team2} = {a, b}}
                IN /\ Cardinality(K) = 1
                   /\ \A k \in K :
                        /\ h2h[k].team1 = a
                        /\ h2h[k].team2 = b
                        /\ Len(h2h[k].matchups) = Cardinality(Between(a, b))
                        /\ aggregatedStats.h2hMatrix[a][b].matchups = h2h[k].matchups
                        /\ aggregatedStats.h2hMatrix[b][a].matchups = h2h[k].matchups
                        /\ Len(getH2HDetails(aggregatedStats, a, b).matchups)
                              = Len(h2h[k].matchups)
                        /\ Len(getH2HDetails(aggregatedStats, b, a).matchups)
                              = Len(h2h[k].matchups)

\* a one-digit and a two-digit team met twice, each of them home once
C2_Witness ==
    /\ Loaded
    /\ \E a \in TeamIds : \E b \in TeamIds :
          /\ a < 10 /\ b >= 10
          /\ \E p \in Between(a, b) : GameAt(p).home.teamId = a
          /\ \E p \in Between(a, b) : GameAt(p).home.teamId = b

(* C3: a head-to-head record counts a decided game for the side that scored  *)
(* more and a tied game as a tie only, and every history entry carries the   *)
(* low-id team's score as team1Score and the high-id team's as team2Score.   *)
C3_WinsGoToTheWinner ==
    Loaded =>
        \A k \in DOMAIN aggregatedStats.h2hRecords :
            LET r == aggregatedStats.h2hRecords[k]
                games == Between(r.team1, r.team2)
                isEntryOf(e, p) ==
                    /\ e.year = p[1]
                    /\ e.week = GameAt(p).matchupPeriodId
                    /\ e.team1Score = ScoreOf(p, r.team1)
                    /\ e.team2Score = ScoreOf(p, r.team2)
            IN /\ r.team1 < r.team2
               /\ r.team1Wins = Cardinality({p \in games :
                                    ScoreOf(p, r.team1) > ScoreOf(p, r.team2)})
               /\ r.team2Wins = Cardinality({p \in games :
                                    ScoreOf(p, r.team2) > ScoreOf(p, r.team1)})
               /\ r.ties = Cardinality({p \in games : Tied(p)})
               /\ Len(r.matchups) = Cardinality(games)
               /\ \A p \in games : \E i \in DOMAIN r.matchups : isEntryOf(r.matchups[i], p)
               /\ \A i \in DOMAIN r.matchups : \E p \in games : isEntryOf(r.matchups[i], p)

\* the low-id team won a game as the away team
C3_Witness ==
    /\ Loaded
    /\ \E k \in DOMAIN aggregatedStats.h2hRecords :
          LET r == aggregatedStats.h2hRecords[k]
          IN /\ r.team1Wins = 1
             /\ \E p \in Between(r.team1, r.team2) :
                   /\ GameAt(p).away.teamId = r.team1
                   /\ ScoreOf(p, r.team1) > ScoreOf(p, r.team2)

\* the view of getH2HDetails(b, a) turned around
SwappedDetails(d) ==
    [team1 |-> d.team2, team2 |-> d.team1, ties |-> d.ties,
     matchups |-> [i \in DOMAIN d.matchups |->
                     [d.matchups[i] EXCEPT !.team1Score = d.matchups[i].team2Score,
                                           !.team2Score = d.matchups[i].team1Score]]]

(* C4: the matrix is symmetric (wins of a over b are losses of b to a, ties  *)
(* agree) and getH2HDetails(a, b) is getH2HDetails(b, a) with the two sides  *)
(* swapped.                                                                  *)
C4_H2HViewsSymmetric ==
    Loaded =>
        LET matrix == aggregatedStats.h2hMatrix
        IN \A a \in DOMAIN matrix : \A b \in DOMAIN matrix :
              a # b =>
                 /\ matrix[a][b].wins = matrix[b][a].losses
                 /\ matrix[a][b].losses = matrix[b][a].wins
                 /\ matrix[a][b].ties = matrix[b][a].ties
                 /\ getH2HDetails(aggregatedStats, a, b) =
                       SwappedDetails(getH2HDetails(aggregatedStats, b, a))

\* a lopsided pair: the two-digit team has beaten a one-digit team and never lost
C4_Witness ==
    /\ Loaded
    /\ \E a \in DOMAIN aggregatedStats.h2hMatrix :
       \E b \in DOMAIN aggregatedStats.h2hMatrix :
          /\ a >= 10 /\ b < 10
          /\ aggregatedStats.h2hMatrix[a][b].wins = 2
          /\ aggregatedStats.h2hMatrix[a][b].losses = 0
          /\ getH2HDetails(aggregatedStats, b, a).team2.wins = 2

-----------------------------------------------------------------------------
(* What the career and champion properties are stated over *)

\* the team records of the processed seasons with this id, as <<year, position>>
TeamSlots(id) ==
    UNION {{<<y, i>> : i \in {j \in DOMAIN allSeasonData[y].teams :
                                 allSeasonData[y].teams[j].id = id}} :
           y \in ProcessedYears}

RECURSIVE SumField(_, _)
\* the sum of a field of record.overall over a set of team records
SumField(slots, field) ==
    IF slots = {} THEN 0
    ELSE LET p == CHOOSE q \in slots : TRUE
         IN allSeasonData[p[1]].teams[p[2]].record.overall[field]
               + SumField(slots \ {p}, field)

(* C5: every career record's wins, losses, ties, pointsFor and pointsAgainst *)
(* are the sums of the season records of its team id over the processed      *)
(* seasons, seasonsPlayed is the number of those seasons, and every team of  *)
(* a processed season has exactly one career record.                         *)
C5_CareerTotalsAreSums ==
    Loaded =>
        LET records == aggregatedStats.careerRecords
        IN /\ \A i \in DOMAIN records :
                LET c == records[i]
                    slots == TeamSlots(c.teamId)
                IN /\ c.wins = SumField(slots, "wins")
                   /\ c.losses = SumField(slots, "losses")
                   /\ c.ties = SumField(slots, "ties")
                   /\ c.pointsFor = SumField(slots, "pointsFor")
                   /\ c.pointsAgainst = SumField(slots, "pointsAgainst")
                   /\ c.seasonsPlayed = Cardinality({p[1] : p \in slots})
                   /\ c.seasonsPlayed >= 1
           /\ \A id \in TeamIds :
                TeamSlots(id) # {} =>
                    Cardinality({i \in DOMAIN records : records[i].teamId = id}) = 1

\* a team with a winning and a losing season
C5_Witness ==
    /\ Loaded
    /\ \E i \in DOMAIN aggregatedStats.careerRecords :
          /\ aggregatedStats.careerRecords[i].seasonsPlayed = 2
          /\ aggregatedStats.careerRecords[i].wins = 3
          /\ aggregatedStats.careerRecords[i].losses = 3
          /\ aggregatedStats.careerRecords[i].ties = 1
          /\ aggregatedStats.careerRecords[i].pointsFor = 550

(* C6: a year whose payload carries an error or has no team list leaves no   *)
(* season summary, champion, matchup or score in the engine's aggregate and  *)
(* no matchup or weekly score in the analytics; every other year has its     *)
(* season summary and its analytics season.                                  *)
C6_BadYearsContributeNothing ==
    /\ Loaded =>
          \A y \in DOMAIN allSeasonData :
              LET stats == aggregatedStats
                  ofYear(list) == {i \in DOMAIN list : list[i].year = y}
              IN IF allSeasonData[y].error \/ ~allSeasonData[y].hasTeams
                 THEN /\ ofYear(stats.seasonSummaries) = {}
                      /\ ofYear(stats.champions) = {}
                      /\ ofYear(stats.allMatchups) = {}
                      /\ ofYear(stats.highScores) = {}
                 ELSE /\ Cardinality(ofYear(stats.seasonSummaries)) = 1
                      /\ Cardinality(ofYear(stats.allMatchups))
                            = Len(allSeasonData[y].schedule)
    /\ ~IsNull(analytics) =>
          \A y \in DOMAIN rawData :
              IF rawData[y].error \/ ~rawData[y].hasTeams
              THEN /\ {i \in DOMAIN analytics.allMatchups :
                          analytics.allMatchups[i].year = y} = {}
                   /\ (y \in DOMAIN analytics.weeklyScores
                          => DOMAIN analytics.weeklyScores[y] = {})
              ELSE /\ y \in DOMAIN analytics.seasons
                   /\ Len(analytics.seasons[y].matchups) = Len(rawData[y].schedule)

\* the season summary of a processed year
SummaryOf(y) ==
    aggregatedStats.seasonSummaries[
        CHOOSE i \in DOMAIN aggregatedStats.seasonSummaries :
            aggregatedStats.seasonSummaries[i].year = y]

\* the positions of the teams with this final rank in the payload of year y
Ranked(y, rank) ==
    {i \in DOMAIN allSeasonData[y].teams :
        allSeasonData[y].teams[i].rankCalculatedFinal = rank}

FirstOf(S) == CHOOSE i \in S : \A j \in S : i <= j

\* the positions of the winners-bracket games in the schedule of year y
BracketGames(y) ==
    {i \in DOMAIN allSeasonData[y].schedule :
        allSeasonData[y].schedule[i].playoffTierType = "WINNERS_BRACKET"}

\* the final of year y: the first bracket game of the last bracket week
FinalOf(y) ==
    LET sched == allSeasonData[y].schedule
        last == {i \in BracketGames(y) : \A j \in BracketGames(y) :
                    sched[j].matchupPeriodId <= sched[i].matchupPeriodId}
    IN sched[FirstOf(last)]

FinalDecided(y) ==
    BracketGames(y) # {} /\ FinalOf(y).home.totalPoints # FinalOf(y).away.totalPoints

FinalWinner(y) ==
    IF FinalOf(y).home.totalPoints > FinalOf(y).away.totalPoints
    THEN FinalOf(y).home.teamId ELSE FinalOf(y).away.teamId

Diff(t) == t.record.overall.wins - t.record.overall.losses

\* what the fallback guarantees of its champion: with a seed on every team
\* the champion is the first team with the lowest seed; with a seed on at
\* most one team it is the first team with the greatest wins - losses
FallbackDecides(y, champion) ==
    LET teams == allSeasonData[y].teams
        seeded == {i \in DOMAIN teams : teams[i].playoffSeed # 0}
        lowest == {i \in DOMAIN teams : \A j \in DOMAIN teams :
                      teams[i].playoffSeed <= teams[j].playoffSeed}
        best == {i \in DOMAIN teams : \A j \in DOMAIN teams :
                    Diff(teams[i]) >= Diff(teams[j])}
    IN /\ Len(teams) = 0 => champion = 0
       /\ Len(teams) > 0 => champion \in {teams[i].id : i \in DOMAIN teams}
       /\ (Len(teams) > 0 /\ seeded = DOMAIN teams) =>
              champion = teams[FirstOf(lowest)].id
       /\ (Len(teams) > 0 /\ Cardinality(seeded) <= 1) =>
              champion = teams[FirstOf(best)].id

(* C7: the champion of a season is the team of final rank 1 if there is one, *)
(* whatever the bracket says; otherwise the higher-scoring team of the       *)
(* winners-bracket game of the last bracket week; and when that final is     *)
(* tied, the team the record/seed fallback puts first.                       *)
C7_ChampionStepsInOrder ==
    Loaded =>
        \A y \in ProcessedYears :
            LET champion == SummaryOf(y).champion
            IN /\ Ranked(y, 1) # {} =>
                     champion = allSeasonData[y].teams[FirstOf(Ranked(y, 1))].id
               /\ (Ranked(y, 1) = {} /\ FinalDecided(y)) =>
                     champion = FinalWinner(y)
               /\ (Ranked(y, 1) = {} /\ BracketGames(y) # {} /\ ~FinalDecided(y)) =>
                     FallbackDecides(y, champion)

\* the team of rank 1 is champion although another team won the final
C7_Witness ==
    /\ Loaded
    /\ \E y \in ProcessedYears :
          /\ Ranked(y, 1) # {}
          /\ FinalDecided(y)
          /\ FinalWinner(y) # SummaryOf(y).champion
          /\ SummaryOf(y).champion = allSeasonData[y].teams[FirstOf(Ranked(y, 1))].id

\* neither a team of rank 1 nor a decided final
FallbackSeason(y) == Ranked(y, 1) = {} /\ ~FinalDecided(y)

(* C8 as stated: without a rank-1 team and a decided final the champion is   *)
(* a team with the greatest wins - losses, and among the teams with that     *)
(* record no seeded team has a better seed than the champion.                *)
C8_BestRecordIsChampion ==
    Loaded =>
        \A y \in ProcessedYears :
            (FallbackSeason(y) /\ Len(allSeasonData[y].teams) > 0) =>
                LET teams == allSeasonData[y].teams
                    c == CHOOSE i \in DOMAIN teams :
                            teams[i].id = SummaryOf(y).champion
                IN /\ \A j \in DOMAIN teams : Diff(teams[c]) >= Diff(teams[j])
                   /\ \A j \in DOMAIN teams :
                        (Diff(teams[j]) = Diff(teams[c]) /\ teams[j].playoffSeed # 0 /\
                         teams[c].playoffSeed # 0)
                            => teams[c].playoffSeed <= teams[j].playoffSeed

(* C8 amended: without a rank-1 team and a decided final the champion is the *)
(* first team in the order that compares two seeded teams by seed and any    *)
(* other two teams by wins - losses: the lowest seed when every team has a   *)
(* seed, the greatest wins - losses when at most one team has one.           *)
C8_SeedBeforeRecord ==
    Loaded =>
        \A y \in ProcessedYears :
            FallbackSeason(y) => FallbackDecides(y, SummaryOf(y).champion)

\* every team is seeded and the champion, the lowest seed, has a losing record
\* while another team has a winning one
C8_Witness ==
    /\ Loaded
    /\ \E y \in ProcessedYears :
          LET teams == allSeasonData[y].teams
          IN /\ FallbackSeason(y)
             /\ \A i \in DOMAIN teams : teams[i].playoffSeed # 0
             /\ \E i \in DOMAIN teams : \E j \in DOMAIN teams :
                   /\ teams[i].id = SummaryOf(y).champion
                   /\ teams[i].playoffSeed < teams[j].playoffSeed
                   /\ Diff(teams[i]) < Diff(teams[j])

(* C9: the teams credited with a championship appearance in a season are the *)
(* two teams of the final when there is one; otherwise the champion and the  *)
(* rank-2 team when there is one; otherwise the champion alone.  (Stated for *)
(* an input of one season, where a career record's championshipAppearances   *)
(* is the appearance in that season.)                                        *)
C9_ParticipantsOfTheSeason ==
    (Loaded /\ Cardinality(DOMAIN allSeasonData) = 1) =>
        \A y \in ProcessedYears :
            LET records == aggregatedStats.careerRecords
                appeared == {records[i].teamId : i \in
                               {j \in DOMAIN records :
                                   records[j].championshipAppearances > 0}}
                champion == SummaryOf(y).champion
                teams == allSeasonData[y].teams
            IN appeared =
                  IF BracketGames(y) # {}
                  THEN {FinalOf(y).home.teamId, FinalOf(y).away.teamId}
                  ELSE IF Ranked(y, 2) # {}
                       THEN {champion, teams[FirstOf(Ranked(y, 2))].id}
                       ELSE {champion}

(* C10: no reported longest losing streak contains a tied game: a tie of the *)
(* team between the start and the end of the streak would have reset it.     *)
C10_NoTieInsideLosingStreak ==
    Loaded =>
        \A i \in DOMAIN aggregatedStats.recordBook.longestLosingStreak :
            LET s == aggregatedStats.recordBook.longestLosingStreak[i]
                notBefore(m, g) == m.year > g.year \/
                                   (m.year = g.year /\ m.matchupPeriodId >= g.week)
                notAfter(m, g) == m.year < g.year \/
                                  (m.year = g.year /\ m.matchupPeriodId <= g.week)
            IN \A k \in DOMAIN aggregatedStats.allMatchups :
                  LET m == aggregatedStats.allMatchups[k]
                  IN ~ /\ s.teamId \in {m.homeTeamId, m.awayTeamId}
                       /\ m.homeScore = m.awayScore
                       /\ notBefore(m, s.start)
                       /\ notAfter(m, s.end)

-----------------------------------------------------------------------------
(* The career leaderboards *)

\* the four leaderboards that are meant to show every team
FullLeaderboards ==
    {"mostWins", "mostChampionships", "mostChampionshipAppearances", "mostPlayoffs"}

(* C17: each of the leaderboards mostWins, mostChampionships,               *)
(* mostChampionshipAppearances and mostPlayoffs holds every career record    *)
(* exactly once, whatever the number of teams.                               *)
C17_LeaderboardsHoldEveryRecord ==
    Loaded =>
        \A board \in FullLeaderboards :
            LET list == aggregatedStats.careerLeaders[board]
                records == aggregatedStats.careerRecords
            IN /\ Len(list) = Len(records)
               /\ {list[i].teamId : i \in DOMAIN list}
                     = {records[i].teamId : i \in DOMAIN records}

-----------------------------------------------------------------------------
(* The streaks, from the games of the input *)

\* the games of a team among the merged matchups, by year and week; games of
\* the same week stay in the order in which they were merged
GamesOf(t) ==
    LET ofTeam(m) == t \in {m.homeTeamId, m.awayTeamId}
        earlier(a, b) == a.year < b.year \/
                         (a.year = b.year /\ a.matchupPeriodId < b.matchupPeriodId)
    IN StableSort(SelectSeq(aggregatedStats.allMatchups, ofTeam), earlier)

\* "W", "L" or "T" for team t in game m
Outcome(t, m) ==
    LET mine == IF t = m.homeTeamId THEN m.homeScore ELSE m.awayScore
        theirs == IF t = m.homeTeamId THEN m.awayScore ELSE m.homeScore
    IN IF mine > theirs THEN "W" ELSE IF mine < theirs THEN "L" ELSE "T"

\* the runs <<first, last>> of games of team t that all have this outcome
Runs(t, kind) ==
    {r \in (DOMAIN GamesOf(t)) \X (DOMAIN GamesOf(t)) :
        r[1] <= r[2] /\ \A k \in r[1]..r[2] : Outcome(t, GamesOf(t)[k]) = kind}

\* the earliest of the longest runs
LongestRun(t, kind) ==
    CHOOSE r \in Runs(t, kind) :
        \A q \in Runs(t, kind) :
            \/ q[2] - q[1] < r[2] - r[1]
            \/ (q[2] - q[1] = r[2] - r[1] /\ r[1] <= q[1])

\* the streak list has exactly the entry of the longest run of team t, or no
\* entry when the team has no game of this outcome
StreakMatchesRuns(list, t, kind) ==
    LET entries == {i \in DOMAIN list : list[i].teamId = t}
    IN IF Runs(t, kind) = {} THEN entries = {}
       ELSE /\ Cardinality(entries) = 1
            /\ LET e == list[CHOOSE i \in entries : TRUE]
                    first == GamesOf(t)[LongestRun(t, kind)[1]]
                    last == GamesOf(t)[LongestRun(t, kind)[2]]
               IN /\ e.length = LongestRun(t, kind)[2] - LongestRun(t, kind)[1] + 1
                  /\ e.length >= 1
                  /\ e.start = [year |-> first.year, week |-> first.matchupPeriodId]
                  /\ e.end = [year |-> last.year, week |-> last.matchupPeriodId]

(* C20: for every team the longest win streak of the record book is the      *)
(* earliest longest run of consecutive wins among its games ordered by year  *)
(* and week, with the first and the last game of the run as start and end,   *)
(* and likewise the longest losing streak for losses; a team without a win   *)
(* (a loss) has no win-streak (loss-streak) entry.                           *)
C20_StreaksAreLongestRuns ==
    Loaded =>
        \A t \in TeamIds :
            /\ StreakMatchesRuns(aggregatedStats.recordBook.longestWinStreak, t, "W")
            /\ StreakMatchesRuns(aggregatedStats.recordBook.longestLosingStreak, t, "L")

-----------------------------------------------------------------------------
(* Luck *)

\* a report of one season is in `report`
SeasonView == ~IsNull(report) /\ report.view # AllTime

\* the full report is in `report`
FullView == ~IsNull(report) /\ report.view = AllTime

\* the sum over the teams of actualWins - expectedWins
LuckSum(allPlay) ==
    FracSum([i \in DOMAIN allPlay |->
               FracSub(Frac(allPlay[i].actualWins, 1), allPlay[i].expectedWins)])

\* C11: for a single season, the sum over all teams of
\* actualWins - expectedWins returned by calculateAllPlayRecord(year) is 0
C11_LuckIsZeroSum ==
    SeasonView => LuckSum(report.allPlay) = Frac(0, 1)

-----------------------------------------------------------------------------
(* Tied games in the analytics *)

\* the regular-season matchups of the year of the report, as parseData read them
SeasonGames == matchupsToUse(analytics, report.view)

\* the number of the games of the season, among those that satisfy P, that
\* team t won (as the home or as the away side) with a greater score
DecidedWins(t, P(_)) ==
    Cardinality({i \in DOMAIN SeasonGames :
        LET m == SeasonGames[i]
        IN /\ P(m)
           /\ \/ m.homeTeamId = t /\ m.homeScore > m.awayScore
              \/ m.awayTeamId = t /\ m.awayScore > m.homeScore})

DecidedLosses(t, P(_)) ==
    Cardinality({i \in DOMAIN SeasonGames :
        LET m == SeasonGames[i]
        IN /\ P(m)
           /\ \/ m.homeTeamId = t /\ m.homeScore < m.awayScore
              \/ m.awayTeamId = t /\ m.awayScore < m.homeScore})

AnyGame(m) == TRUE

CloseGame(m) == m.margin <= closeThresholdDefault

\* C15: a tied matchup has no winner anywhere in the analytics: parseData
\* records no winner or loser side for it, it adds no actual win in luck, no
\* close win or close loss in clutch, and neither a win nor a loss in the
\* strength-of-schedule records
C15_TieHasNoWinner ==
    /\ ~IsNull(analytics) =>
          \A i \in DOMAIN analytics.allMatchups :
              LET m == analytics.allMatchups[i]
              IN m.homeScore = m.awayScore =>
                    /\ m.winnerId \notin {m.homeTeamId, m.awayTeamId}
                    /\ m.loserId \notin {m.homeTeamId, m.awayTeamId}
    /\ SeasonView =>
          /\ \A i \in DOMAIN report.allPlay :
                report.allPlay[i].actualWins = DecidedWins(report.allPlay[i].key, AnyGame)
          /\ \A row \in report.clutch :
                /\ row.closeWins = DecidedWins(row.key, CloseGame)
                /\ row.closeLosses = DecidedLosses(row.key, CloseGame)
          /\ \A i \in DOMAIN report.strengthOfSchedule :
                LET row == report.strengthOfSchedule[i]
                    wins == DecidedWins(row.key, AnyGame)
                    losses == DecidedLosses(row.key, AnyGame)
                IN wins + losses > 0 =>
                      row.teamWinPct = ToFixed(Frac(wins * 100, wins + losses), 1)

-----------------------------------------------------------------------------
(* Close games and blowouts *)

\* the regular-season matchups that the report in `report` is about
ReportGames == matchupsToUse(analytics, report.view)

\* the margin of a matchup, from its two scores
MarginOf(m) == Abs(m.homeScore - m.awayScore)

\* the number of sides that the identity of key k has in the games of the
\* report whose margin satisfies P
SidesOf(k, P(_)) ==
    Cardinality({s \in (DOMAIN ReportGames) \X {"home", "away"} :
        LET m == ReportGames[s[1]]
            teamId == IF s[2] = "home" THEN m.homeTeamId ELSE m.awayTeamId
        IN P(MarginOf(m)) /\ keyOf(analytics, report.view, teamId, m.year) = k})

CloseMargin(margin) == margin <= 5

BlowoutMargin(margin) == margin > 30

AnyMargin(margin) == TRUE

\* C14: a non-playoff matchup is counted as a close game iff its margin is at
\* most 5 and as a blowout iff its margin is greater than 30, and no matchup
\* is counted as both
C14_CloseAndBlowout ==
    ~IsNull(report) =>
        \A row \in report.clutch :
            /\ row.totalCloseGames = SidesOf(row.key, CloseMargin)
            /\ row.closeWins + row.closeLosses = row.totalCloseGames
            /\ row.blowoutWins + row.blowoutLosses = SidesOf(row.key, BlowoutMargin)
            /\ row.totalCloseGames + row.blowoutWins + row.blowoutLosses
                  <= SidesOf(row.key, AnyMargin)

\* a season report on games of margins 5, 30 and 31: team 10 has one close
\* game, no blowout from the margin of 30 and one from the margin of 31
C14_Witness ==
    /\ SeasonView
    /\ {MarginOf(ReportGames[i]) : i \in DOMAIN ReportGames} = {5, 30, 31}
    /\ \E row \in report.clutch :
          /\ row.key = 10
          /\ row.totalCloseGames = 1
          /\ row.blowoutWins + row.blowoutLosses = 1
          /\ SidesOf(10, AnyMargin) = 2

-----------------------------------------------------------------------------
(* Owners *)

\* the raw owner of team t in year y, "" if it has none; read from the input
RawOwner(y, t) ==
    LET teams == rawData[y].teams
        I == {i \in DOMAIN teams : teams[i].id = t /\ teams[i].owners # <<>>}
    IN IF I = {} THEN "" ELSE teams[CHOOSE i \in I : TRUE].owners[1]

\* the owner ids that the co-owner table maps to the id
CoOwners(id) == IF id = TrevorId THEN {SamId, TrevorId} ELSE {id}

\* the canonical ids of a list of owner ids
CoOwnerKeys(owners) ==
    {IF id = SamId THEN TrevorId ELSE id : id \in Range(owners)}

\* the keys of the all-time results of the full report
AllTimeKeys ==
    {report.luck.allTime[i].key : i \in DOMAIN report.luck.allTime}
    \cup {row.key : row \in report.consistency}
    \cup {row.key : row \in report.clutch}
    \cup {report.strengthOfSchedule[i].key : i \in DOMAIN report.strengthOfSchedule}

\* the sides of the regular-season games played by teams of the owners
OwnedSides(owners) ==
    {s \in (DOMAIN analytics.allMatchups) \X {"home", "away"} :
        LET m == analytics.allMatchups[s[1]]
            teamId == IF s[2] = "home" THEN m.homeTeamId ELSE m.awayTeamId
        IN ~m.isPlayoff /\ RawOwner(m.year, teamId) \in owners}

\* the weekly scores of teams of the owners: <<year, week, team>>
OwnedScores(owners) ==
    {e \in UNION {UNION {{<<y, w, t>> : t \in DOMAIN analytics.weeklyScores[y][w]} :
                            w \in DOMAIN analytics.weeklyScores[y]} :
                     y \in DOMAIN analytics.weeklyScores} :
        RawOwner(e[1], e[3]) \in owners}

\* the sides with the greater score among the sides of the owners
OwnedWins(owners) ==
    {s \in OwnedSides(owners) :
        LET m == analytics.allMatchups[s[1]]
        IN IF s[2] = "home" THEN m.homeScore > m.awayScore
           ELSE m.awayScore > m.homeScore}

\* C13: teams whose primary owners are mapped by the co-owner table to the
\* same canonical id are aggregated under one key in every all-time analytic,
\* and no all-time result is keyed by a raw owner id that the table maps to
\* another id
C13_CoOwnersShareOneKey ==
    FullView =>
        /\ SamId \notin AllTimeKeys
        /\ \A i \in DOMAIN report.strengthOfSchedule :
              LET row == report.strengthOfSchedule[i]
              IN row.gamesPlayed = Cardinality(OwnedSides(CoOwners(row.key)))
        /\ \A row \in report.clutch :
              Cardinality({r \in report.clutch : r.key = row.key}) = 1
        /\ \A row \in report.consistency :
              row.gamesPlayed = Cardinality(OwnedScores(CoOwners(row.key)))
        /\ \A i \in DOMAIN report.luck.allTime :
              LET row == report.luck.allTime[i]
              IN row.actualWins = Cardinality(OwnedWins(CoOwners(row.key)))

\* the full report of a history in which a team of each co-owner has played:
\* the one row of the canonical id counts the games of both
C13_Witness ==
    /\ FullView
    /\ OwnedSides({SamId}) # {}
    /\ OwnedSides({TrevorId}) # {}
    /\ \E i \in DOMAIN report.strengthOfSchedule :
          /\ report.strengthOfSchedule[i].key = TrevorId
          /\ report.strengthOfSchedule[i].gamesPlayed =
                Cardinality(OwnedSides({SamId})) + Cardinality(OwnedSides({TrevorId}))

-----------------------------------------------------------------------------
(* Current owners *)

\* the canonical owners of the teams of the latest season, read from the input
CurrentOwners ==
    LET latest == CHOOSE y \in DOMAIN rawData : \A z \in DOMAIN rawData : z <= y
        teams == rawData[latest].teams
    IN UNION {CoOwnerKeys(teams[i].owners) : i \in DOMAIN teams}

\* every regular-season score of the history, one per side
AllSideScores ==
    LET games == matchupsToUse(analytics, AllTime)
    IN Flatten([i \in DOMAIN games |-> <<games[i].homeScore, games[i].awayScore>>])

\* the regular-season scores of the sides of current owners
CurrentSideScores ==
    LET games == matchupsToUse(analytics, AllTime)
        scoreOf(m, teamId, score) ==
            IF CoOwnerKeys(OwnersOf(RawOwner(m.year, teamId))) \subseteq CurrentOwners
               /\ RawOwner(m.year, teamId) # ""
            THEN <<score>> ELSE <<>>
    IN Flatten([i \in DOMAIN games |->
                  scoreOf(games[i], games[i].homeTeamId, games[i].homeScore)
                  \o scoreOf(games[i], games[i].awayTeamId, games[i].awayScore)])

\* the teams with a side in a regular-season game of the year of the report
SeasonTeams ==
    UNION {{ReportGames[i].homeTeamId, ReportGames[i].awayTeamId} : i \in DOMAIN ReportGames}

\* C12: the all-time results hold current owners only, yet their numbers are
\* computed from the games of every identity (the league average of the
\* strength of schedule is the average of all regular-season scores, and the
\* games of an identity against owners who have left count for it); a
\* single-season result is never filtered by current-owner status
C12_AllTimeShowsCurrentOwnersOnly ==
    /\ FullView =>
          /\ AllTimeKeys \subseteq CurrentOwners
          /\ \A i \in DOMAIN report.strengthOfSchedule :
                LET row == report.strengthOfSchedule[i]
                IN /\ row.leagueAvgScore =
                         ToFixed(Frac(SumSeq(AllSideScores), Len(AllSideScores)), 2)
                   /\ row.gamesPlayed = Cardinality(OwnedSides(CoOwners(row.key)))
          /\ \A row \in report.clutch :
                row.seasonsPlayed =
                    Cardinality({analytics.allMatchups[s[1]].year :
                                    s \in OwnedSides(CoOwners(row.key))})
          /\ \A i \in DOMAIN report.luck.allTime :
                report.luck.allTime[i].actualWins =
                    Cardinality(OwnedWins(CoOwners(report.luck.allTime[i].key)))
    /\ SeasonView =>
          /\ {report.luck[i].key : i \in DOMAIN report.luck} = SeasonTeams
          /\ {row.key : row \in report.clutch} = SeasonTeams
          /\ {report.strengthOfSchedule[i].key : i \in DOMAIN report.strengthOfSchedule}
                = SeasonTeams
          /\ {row.key : row \in report.consistency} =
                {t \in SeasonTeams :
                    Cardinality({w \in DOMAIN analytics.weeklyScores[report.view] :
                        t \in DOMAIN analytics.weeklyScores[report.view][w]}) >= 3}

\* the full report of a history with an owner who has left: the owner has no
\* row, and the league average is not the average of the current owners
C12_Witness ==
    /\ FullView
    /\ OwnedSides({"owner-old"}) # {}
    /\ "owner-old" \notin AllTimeKeys
    /\ \E i \in DOMAIN report.strengthOfSchedule :
          report.strengthOfSchedule[i].leagueAvgScore #
              ToFixed(Frac(SumSeq(CurrentSideScores), Len(CurrentSideScores)), 2)

-----------------------------------------------------------------------------
(* Consistency needs three scores *)

\* the scores that the schedules of the input hold for the identity of key k
\* in the view of the report, as <<year, position in the schedule, side>>
CollectedScores(k) ==
    {e \in UNION {(({y} \X DOMAIN rawData[y].schedule) \X {"home", "away"}) :
                     y \in DOMAIN rawData} :
        LET y == e[1][1]
            g == rawData[y].schedule[e[1][2]]
            t == IF e[2] = "home" THEN g.home.teamId ELSE g.away.teamId
        IN IF report.view = AllTime THEN RawOwner(y, t) = k
           ELSE y = report.view /\ t = k}

\* the identities of the view of the report: owners or teams
ViewIdentities ==
    IF report.view = AllTime
    THEN {RawOwner(y, t) : y \in DOMAIN rawData, t \in TeamIds} \ {""}
    ELSE TeamIds

\* the entries of the two score lists of the record book
ScoreLists ==
    Range(aggregatedStats.recordBook.highestScore)
    \cup Range(aggregatedStats.recordBook.lowestScore)

-----------------------------------------------------------------------------
(* The era rule of single-game scores *)

\* the cutoff years that an era rule may have on the era inputs
EraCutoffs == 2014..2018

\* the era rule with the cutoff: early seasons count weeks 1-12 only
Eligible(cutoff, year, week) == year > cutoff \/ week <= 12

\* the scores of the input that the rule with the cutoff makes eligible
EligibleScores(cutoff) ==
    UNION {UNION {{rawData[y].schedule[i].home.totalPoints,
                   rawData[y].schedule[i].away.totalPoints} :
                    i \in {j \in DOMAIN rawData[y].schedule :
                             Eligible(cutoff, y, rawData[y].schedule[j].matchupPeriodId)}} :
           y \in DOMAIN rawData}

MaxOf(S) == IF S = {} THEN 0 ELSE CHOOSE x \in S : \A y \in S : y <= x

ScoresIn(list) == {list[i].score : i \in DOMAIN list}

\* C18: the record-book highest and lowest scores and the highest single game
\* of the analytics apply one era rule: for one cutoff year, a score of a
\* season at or before it is eligible only in weeks 1-12 and every score of
\* a later season, regular-season or playoff, is eligible
C18_OneEraRule ==
    (Loaded /\ FullView) =>
        \E cutoff \in EraCutoffs :
            /\ ScoresIn(aggregatedStats.recordBook.highestScore) = EligibleScores(cutoff)
            /\ ScoresIn(aggregatedStats.recordBook.lowestScore) = EligibleScores(cutoff)
            /\ report.highestSingleGame.score = MaxOf(EligibleScores(cutoff))

-----------------------------------------------------------------------------
(* Running the aggregation again *)

-----------------------------------------------------------------------------
(* All-play records *)

\* the schedule entries of year y and week w that carry no playoff tier
RegularEntries(y, w) ==
    {i \in DOMAIN rawData[y].schedule :
        /\ rawData[y].schedule[i].matchupPeriodId = w
        /\ rawData[y].schedule[i].playoffTierType \in {"", "NONE"}}

\* the teams with a score from a regular-season game of the week
RegularScorers(y, w) ==
    UNION {{rawData[y].schedule[i].home.teamId, rawData[y].schedule[i].away.teamId} :
             i \in RegularEntries(y, w)}

\* the score of team t in its regular-season game of the week (the inputs
\* give a team one game a week)
RegularScore(y, w, t) ==
    LET i == CHOOSE j \in RegularEntries(y, w) :
                t \in {rawData[y].schedule[j].home.teamId,
                       rawData[y].schedule[j].away.teamId}
        g == rawData[y].schedule[i]
    IN IF g.home.teamId = t THEN g.home.totalPoints ELSE g.away.totalPoints

\* the weeks of the year in which team t and at least one other team have a
\* regular-season score
AllPlayWeeksOf(y, t) ==
    {w \in {rawData[y].schedule[i].matchupPeriodId : i \in DOMAIN rawData[y].schedule} :
        t \in RegularScorers(y, w) /\ Cardinality(RegularScorers(y, w)) >= 2}

Outscored(y, w, t) ==
    {o \in RegularScorers(y, w) \ {t} : RegularScore(y, w, t) > RegularScore(y, w, o)}

\* C21: in every regular-season week with n >= 2 scoring teams a team's
\* expected wins grow by (the number of other teams it strictly outscored) /
\* (n - 1) and its all-play wins plus losses by n - 1, and scores from
\* playoff games never contribute
C21_ExpectedWinsPerWeek ==
    SeasonView =>
        LET y == report.view
        IN /\ {report.allPlay[i].key : i \in DOMAIN report.allPlay}
                 = {t \in TeamIds \cup {11} : AllPlayWeeksOf(y, t) # {}}
           /\ \A i \in DOMAIN report.allPlay :
                 LET t == report.allPlay[i].key
                     weeks == SetToSeq(AllPlayWeeksOf(y, t))
                 IN /\ report.allPlay[i].expectedWins =
                          FracSum([j \in DOMAIN weeks |->
                                     Frac(Cardinality(Outscored(y, weeks[j], t)),
                                          Cardinality(RegularScorers(y, weeks[j])) - 1)])
                    /\ report.allPlay[i].allPlayWins + report.allPlay[i].allPlayLosses =
                          SumSeq([j \in DOMAIN weeks |->
                                    Cardinality(RegularScorers(y, weeks[j])) - 1])

-----------------------------------------------------------------------------
(* Regular season and playoffs *)

\* the regular-season cutoff of a payload: the settings count if present,
\* else 13 weeks up to 2020 and 14 after
CutoffOf(y) ==
    IF rawData[y].settings.regularSeasonMatchupPeriods # 0
    THEN rawData[y].settings.regularSeasonMatchupPeriods
    ELSE IF y <= 2020 THEN 13 ELSE 14

\* playoff iff an explicit tier marker or, lacking one, a week past the cutoff
PlayoffByRule(y, g) ==
    \/ g.playoffTierType \notin {"", "NONE"}
    \/ g.playoffTierType = "" /\ g.matchupPeriodId > CutoffOf(y)

\* the entries that the engine keeps for game p
EngineEntries(p) ==
    {i \in DOMAIN aggregatedStats.allMatchups :
        LET m == aggregatedStats.allMatchups[i]
        IN /\ m.year = p[1]
           /\ m.matchupPeriodId = GameAt(p).matchupPeriodId
           /\ m.homeTeamId = GameAt(p).home.teamId
           /\ m.awayTeamId = GameAt(p).away.teamId}

\* the entries that the analytics keep for game p
AnalyticsEntries(p) ==
    {i \in DOMAIN analytics.allMatchups :
        LET m == analytics.allMatchups[i]
        IN /\ m.year = p[1]
           /\ m.week = GameAt(p).matchupPeriodId
           /\ m.homeTeamId = GameAt(p).home.teamId
           /\ m.awayTeamId = GameAt(p).away.teamId}

\* C22: a matchup is playoff iff it carries a playoff-tier marker or, lacking
\* one, its week exceeds the regular-season cutoff; every matchup is in
\* exactly one of the regular and playoff lists, and processSeasonData and
\* parseData classify it alike
C22_SamePlayoffClassification ==
    (Loaded /\ ~IsNull(analytics)) =>
        \A p \in PlayedGames :
            /\ Cardinality(EngineEntries(p)) = 1
            /\ \A i \in EngineEntries(p) :
                  aggregatedStats.allMatchups[i].isPlayoffGame = PlayoffByRule(p[1], GameAt(p))
            /\ \A i \in AnalyticsEntries(p) :
                  analytics.allMatchups[i].isPlayoff = PlayoffByRule(p[1], GameAt(p))

-----------------------------------------------------------------------------
(* The overall win percentage of the clutch rows *)

\* C23: the clutch overallWinPct of an identity is (close wins + blowout
\* wins) divided by the number of all its decided non-playoff games, those
\* of a margin neither close nor a blowout included, and is a defined number
\* for every identity with at least one decided game
C23_OverallWinPctOverDecidedGames ==
    SeasonView =>
        \A row \in report.clutch :
            LET decided == DecidedWins(row.key, AnyGame) + DecidedLosses(row.key, AnyGame)
            IN decided > 0 =>
                  row.overallWinPct =
                      Num(ToFixed(Frac((row.closeWins + row.blowoutWins) * 100, decided), 1))

-----------------------------------------------------------------------------
(* The current owners *)

\* the seasons at or after minYear that loaded and have at least one team
SeasonsWithTeams ==
    {y \in DOMAIN rawData :
        y >= minYear /\ ~rawData[y].error /\ rawData[y].hasTeams /\ rawData[y].teams # <<>>}

\* the owner ids listed by the teams of the season
ListedOwners(y) ==
    UNION {Range(rawData[y].teams[i].owners) : i \in DOMAIN rawData[y].teams}

\* the owner id that stands for the owner: Trevor for Sam, the owner otherwise
CanonicalOf(id) == IF id = SamId THEN TrevorId ELSE id

\* C24: after the construction of AdvancedAnalytics, currentOwnerIds is the
\* set of the canonical owner ids of the teams of the latest season at or
\* after minYear that has at least one team, and is empty if there is no such
\* season
C24_CurrentOwnersOfLatestSeasonWithTeams ==
    ~IsNull(analytics) =>
        analytics.currentOwnerIds =
            IF SeasonsWithTeams = {} THEN {}
            ELSE LET latest == CHOOSE y \in SeasonsWithTeams :
                                   \A z \in SeasonsWithTeams : z <= y
                 IN {CanonicalOf(id) : id \in ListedOwners(latest)}

\* the latest season has no team, the one before has teams of a co-owner and
\* of another owner, and these are the current owners
C24_Witness ==
    /\ ~IsNull(analytics)
    /\ ~rawData[2016].error /\ ~rawData[2016].hasTeams
    /\ ListedOwners(2015) = {SamId, "owner-a"}
    /\ ~rawData[2010].error /\ ListedOwners(2010) = {"owner-b", TrevorId}
    /\ analytics.currentOwnerIds = {TrevorId, "owner-a"}

-----------------------------------------------------------------------------
(* The order of the career leaderboards among equal headline values *)

\* the value that the leaderboard ranks by
Headline(board, r) ==
    CASE board = "mostWins" -> r.wins
      [] board = "mostChampionships" -> r.championships
      [] board = "mostChampionshipAppearances" -> r.championshipAppearances
      [] board = "mostPlayoffs" -> r.playoffAppearances
      [] board = "mostPointsFor" -> r.pointsFor

\* the leaderboards ranked by a whole number
CountedLeaderboards == FullLeaderboards \cup {"mostPointsFor"}

\* C25: within every career leaderboard, records with equal headline value
\* are ordered by pointsFor descending (and by display name among equal
\* pointsFor): of two neighbours with the same headline value the first never
\* has fewer points
C25_TiesOrderedByPointsFor ==
    Loaded =>
        \A board \in CountedLeaderboards :
            LET list == aggregatedStats.careerLeaders[board]
            IN \A i \in DOMAIN list :
                  (i < Len(list) /\ Headline(board, list[i]) = Headline(board, list[i + 1]))
                      => list[i].pointsFor >= list[i + 1].pointsFor

-----------------------------------------------------------------------------
(* Championships and championship appearances of a career *)

\* C26: after any sequence of merged seasons, every career record has at
\* most as many championships as championship appearances
C26_ChampionshipsWithinAppearances ==
    Loaded =>
        \A i \in DOMAIN aggregatedStats.careerRecords :
            aggregatedStats.careerRecords[i].championships
                <= aggregatedStats.careerRecords[i].championshipAppearances

-----------------------------------------------------------------------------
(* The cache of the engine *)

\* the three name maps of the engine
EngineNames ==
    [teamNameMap |-> teamNameMap, ownerNameMap |-> ownerNameMap,
     ownerHistory |-> ownerHistory]

\* the team ids of the loaded seasons
LoadedTeamIds ==
    UNION {{allSeasonData[y].teams[i].id : i \in DOMAIN allSeasonData[y].teams} :
              y \in DOMAIN allSeasonData}

\* getTeamName(id) of every loaded team
DisplayNames == [id \in LoadedTeamIds |-> getTeamName(EngineNames, id)]

\* the teamName fields of the career records
CareerNames ==
    IF IsNull(aggregatedStats) THEN <<>>
    ELSE [i \in DOMAIN aggregatedStats.careerRecords |->
             aggregatedStats.careerRecords[i].teamName]

\* the cache holds what saveToStorage stores of the present engine
SavedAsLoaded ==
    /\ Loaded
    /\ storageKey \in DOMAIN localStorage
    /\ localStorage[storageKey] =
          serializable(allSeasonData, teamNameMap, teamNameMapByString)

\* the cache holds an entry of another cache version
SavedByOtherVersion ==
    /\ storageKey \in DOMAIN localStorage
    /\ localStorage[storageKey].cacheVersion # CACHE_VERSION

\* C27: loadFromStorage after loadAllSeasons and saveToStorage returns true
\* and leaves getTeamName(id) of every team and the teamName of every career
\* record as they were before saving; with an entry of another cache version
\* it returns false, removes the entry and leaves aggregatedStats null
C27_CacheRoundTrip ==
    [][LoadFromStorage =>
          /\ SavedAsLoaded =>
                /\ result' = "true"
                /\ DisplayNames' = DisplayNames
                /\ CareerNames' = CareerNames
          /\ SavedByOtherVersion =>
                /\ result' = "false"
                /\ storageKey \notin DOMAIN localStorage'
                /\ IsNull(aggregatedStats')]_vars

-----------------------------------------------------------------------------
(* The engine after clearStorage *)

\* the name maps of a new StatsEngine
NoNames == [teamNameMap |-> <<>>, ownerNameMap |-> <<>>, ownerHistory |-> <<>>]

\* what clearStorage and the constructor both leave: no seasons, no
\* statistics, no team names, no owner history
Cleared ==
    /\ allSeasonData = <<>>
    /\ IsNull(aggregatedStats)
    /\ teamNameMap = <<>>
    /\ teamNameMapByString = <<>>
    /\ ownerHistory = <<>>

\* the name maps of a new engine after loadAllSeasons(rawData)
NamesOfNewEngine == buildTeamNameMap(NoNames, rawData)

\* C28: loadAllSeasons(B) after clearStorage() yields the display names, the
\* owner history and the aggregated statistics that loadAllSeasons(B) yields
\* on a new StatsEngine, whatever was loaded before
C28_ClearedEngineIsNew ==
    [][(Cleared /\ LoadAllSeasons) =>
          /\ DisplayNames' = [id \in LoadedTeamIds' |-> getTeamName(NamesOfNewEngine, id)]
          /\ ownerHistory' = NamesOfNewEngine.ownerHistory
          /\ aggregatedStats' \in
                {aggregateAllStats(rawData, pick, NamesOfNewEngine) :
                    pick \in PickChoices(rawData)}]_vars

-----------------------------------------------------------------------------
(* The output of the pre-builder *)

BuildYears == startYear..currentYear

\* C29: when the loop of the pre-builder has finished, every year from
\* startYear to currentYear has one entry in the output, a fetched payload or
\* an error, whatever happened to the requests of the earlier years, and
\* successCount + errorCount is the number of years
C29_OneEntryPerYear ==
    build.pc = "done" =>
        /\ DOMAIN build.output.seasons = BuildYears
        /\ \A y \in BuildYears :
              DOMAIN build.output.seasons[y] \in {{"value"}, {"error"}}
        /\ build.output.meta.successCount + build.output.meta.errorCount
              = Cardinality(BuildYears)

-----------------------------------------------------------------------------
(* The start-up of the application *)

\* the static file can be fetched and names at least one fetched season
StaticFileQualifies == ~IsNull(staticFile) /\ staticFile.meta.successCount > 0

\* the browser holds a cache of this version
CacheLoads ==
    /\ storageKey \in DOMAIN localStorage
    /\ localStorage[storageKey].cacheVersion = CACHE_VERSION

\* the days since the stored time of the last fetch
CacheAge == now - parseInt(localStorage[lastFetchKey])

\* the cache loads and its fetch time is less than seven days old
CacheQualifies ==
    /\ CacheLoads
    /\ lastFetchKey \in DOMAIN localStorage
    /\ CacheAge < 7

\* a call of loadLeagueData has ended, or the page went away with it
LoadEnded == app'.inFlight < app.inFlight

====
